---- MODULE Spec2Model ----
(***************************************************************************)
(* serp-it: the browser pool (BrowserPool.ts) and the page render pipeline *)
(* (PageRenderer.ts, renderPageToMarkdown) as a state machine.             *)
(*                                                                         *)
(* JavaScript runs each callback to its next await without interruption,   *)
(* so one action is one such run: the synchronous code between two         *)
(* suspension points.  The suspension points are the awaits on             *)
(* chromium.launch, browser.newContext, the page work, context.close,      *)
(* browser.close, delay, the HEAD probe and the pool's polling timer.      *)
(*                                                                         *)
(* Two specifications share the pool:                                      *)
(*   SpecPool  callers use one BrowserPool directly (acquire / release),   *)
(*             with the eviction timer, closeAll and the clock;            *)
(*   Spec      one renderPageToMarkdown call at a time, step by step, on   *)
(*             the process-wide pool (getBrowserPool / closeBrowserPool),  *)
(*             beside a concurrent user of that pool and the shutdown      *)
(*             handler; the clock stands still (eviction is SpecPool's).   *)
(***************************************************************************)
EXTENDS Integers, Sequences, FiniteSets, TLC

\* ---------------------------------------------------------------- bounds
\* Concurrent callers.
NumProcs == 2
\* The pool's limit: the constructor's maxSize parameter (default 3); the
\* model builds its pools with a smaller limit so that NumProcs callers
\* can fill it.
maxSize == 1
\* Browsers chromium.launch can start in one run of the model.
MaxHandles == 3
\* Clock ticks of TickMs the model lets pass.
MaxTicks == 2
\* BrowserPool objects the model lets getBrowserPool construct.
MaxPools == 2
\* Search engines the aggregator runs (the program configures 7).
NumEngines == 2
\* Results one engine returns at most.
MaxResults == 2
\* Trailing slashes of the paths given to sanitizeUrl.
MaxSlashes == 2
\* Results searchAllEngines returns to search_fetch at most.
MaxFound == 11
\* Paragraphs of a text given to deduplicateContent.
MaxParagraphs == 2
\* Workers Tesseract.createWorker can start in one run of the model.
MaxWorkers == 2

\* ------------------------------------------------------ program constants
\* constructor(maxSize = 3, idleTimeoutMs = 60_000)
idleTimeout == 60000
\* The model's clock advances in steps of this size, so that a browser is
\* idle for 0, exactly idleTimeout, or more than idleTimeout.
TickMs == idleTimeout

Procs == 1..NumProcs
\* In Spec caller 1 runs renderPageToMarkdown step by step, and caller 2
\* stands for a concurrent render call, seen through what it does to the
\* pool: getBrowserPool().acquire(), later release().
Renderers == {1}
Others == {2}
Handles == 1..MaxHandles
PoolIds == 1..MaxPools

VARIABLES
  pools,        \* PoolIds -> [pool: Seq(PooledBrowser), cleanupInterval: BOOLEAN]
  nPools,       \* BrowserPool objects constructed so far (1..nPools exist)
  globalPool,   \* the singleton: 0 (undefined) or a pool id
  status,       \* Handles -> "none" (not launched) | "open" | "closed" (close() was called)
  nextHandle,   \* browsers launched so far
  now,          \* Date.now()
  pc,           \* Procs -> where each caller is
  poolRef,      \* Procs -> the pool the caller works on (0: null)
  browser,      \* Procs -> the caller's browser (0: null)
  relSince,     \* Procs -> handles released while the caller waits in acquire()
  closer,       \* the closeAll() call in flight: [pc, pool, awaited]
  usePool,      \* Procs -> the usePool argument of renderPageToMarkdown
  attempt,      \* Procs -> the loop variable of the retry loop
  createdBrowser, \* Procs -> the attempt launched a browser of its own
  lastError,    \* Procs -> the error the last catch recorded, named by the
                \* attempt (1, 2, 3) that threw it (NoError: undefined)
  outcome,      \* Procs -> what the call returned ("ok"), threw after the loop
                \* ("error") or let through from pool.acquire() ("rejected"),
                \* with the attempt it comes from
  delays,       \* Procs -> the delay(ms) calls of the current call, in order
  gave,         \* Procs -> release/close calls on the current attempt's browser
  url,          \* Procs -> the url argument of renderPageToMarkdown
  probe,        \* Procs -> what the HEAD probe of isPdfContentType reported
  docCalls,     \* Procs -> parsePdfFromUrl calls of the current call
  context,      \* Procs -> the attempt's browsing context: "none" | "open" |
                \* "closed" (close() resolved) | "closeFailed" (close() rejected)
  aggPc,        \* searchAllEngines: "idle" | "searching" | "returned"
  engineIdx,    \* searchAllEngines: the engine the for loop is at (1-based)
  aggregated,   \* searchAllEngines: the Map, as its entries in insertion order
  engineErrors, \* searchAllEngines: the engineErrors array
  invoked,      \* engine -> engine.search() calls of the current call
  returned,     \* what each engine.search() of the current call settled with
  uPc,          \* sanitizeUrl: "idle" | "called" | "returned"
  urlArg,       \* sanitizeUrl: the rawUrl argument
  urlResult,    \* sanitizeUrl: the value returned
  fPc,          \* search_fetch: "idle" | "searching" | "rendering" | "returned"
  maxFetch,     \* search_fetch: the maxFetch argument
  fetchLimit,   \* search_fetch: const fetchLimit
  enriched,     \* collectRenderedResults: the results with their markdown
  fetchErrors,  \* collectRenderedResults: the fetchErrors array
  fetchIdx,     \* collectRenderedResults: the item the for loop is at
  rendered,     \* the renderPageToMarkdown calls of the current call, settled
  mPc,          \* mergeExtractions: "idle" | "called" | "returned";
                \* deduplicateContent on its own: "dedup" | "deduped"
  textContent,  \* mergeExtractions: the embedded text (deduplicateContent:
                \* its first argument)
  ocrContent,   \* mergeExtractions: the recognized text (deduplicateContent:
                \* its second argument)
  mergedContent, \* mergeExtractions: the value returned
  xPc,          \* parsePdfFromBuffer: "idle" | "parsing" | "ocr" | "returned" | "failed"
  textStep,     \* extractEmbeddedText of the call: "none" | "ok" | "failed"
  ocrStep,      \* the OCR step of the call: "none" | "ok" | "failed"
  hasEmbeddedText,  \* extractPdfContent: const hasEmbeddedText
  extractionMethod, \* formatPdfToMarkdown: const extractionMethod ("": none yet)
  tesseractWorker,  \* let tesseractWorker: 0 (null) or a worker
  workers,      \* Workers -> "none" (not created) | "running" | "terminated"
                \* (terminate() was called)
  nextWorker,   \* workers created so far
  oPc,          \* Procs -> ocrImage: "idle" | "creating" | "recognizing"
  oWorker,      \* Procs -> const worker of ocrImage (0: none yet)
  cleaner       \* the cleanupOcr() call in flight: [pc, worker]

\* The document route's variables of the render pipeline.
dvars == <<url, probe, docCalls>>

\* The render pipeline's variables.
rvars == <<usePool, attempt, createdBrowser, lastError, outcome, delays, gave,
          context, dvars>>

\* The aggregator's variables.
avars == <<aggPc, engineIdx, aggregated, engineErrors, invoked, returned>>

\* The variables of a sanitizeUrl call on its own.
uvars == <<uPc, urlArg, urlResult>>

\* The variables of the search_fetch tool.
fvars == <<fPc, maxFetch, fetchLimit, enriched, fetchErrors, fetchIdx, rendered>>

\* The variables of a mergeExtractions call.
mvars == <<mPc, textContent, ocrContent, mergedContent>>

\* The variables of a document extraction.
xvars == <<xPc, textStep, ocrStep, hasEmbeddedText, extractionMethod>>

\* The variables of the recognition worker and its users.
ovars == <<tesseractWorker, workers, nextWorker, oPc, oWorker, cleaner>>

\* The variables of the other components.
evars == <<avars, uvars, fvars, mvars, xvars, ovars>>

\* The pool's and its callers' variables.
pvars == <<pools, nPools, globalPool, status, nextHandle, now, pc, poolRef,
           browser, relSince, closer>>

\* What the aggregator leaves alone.
aRest == <<pvars, rvars, uvars, fvars, mvars, xvars, ovars>>

\* What a sanitizeUrl call leaves alone.
uRest == <<pvars, rvars, avars, fvars, mvars, xvars, ovars>>

\* What the search_fetch tool leaves alone.
fRest == <<pvars, rvars, avars, uvars, mvars, xvars, ovars>>

\* What a mergeExtractions call leaves alone.
mRest == <<pvars, rvars, avars, uvars, fvars, xvars, ovars>>

\* What a document extraction leaves alone.
xRest == <<pvars, rvars, avars, uvars, fvars, ovars>>

\* What the recognition worker's users leave alone.
oRest == <<pvars, rvars, avars, uvars, fvars, mvars, xvars>>

vars == <<pools, nPools, globalPool, status, nextHandle, now, pc, poolRef,
          browser, relSince, closer, rvars, evars>>

\* ------------------------------------------------------------ BrowserPool

\* new BrowserPool(): pool = [], cleanupInterval undefined.
NewPool == [pool |-> <<>>, cleanupInterval |-> FALSE]

\* interface PooledBrowser { browser, inUse, lastUsed }
PooledBrowser(h, used, t) == [browser |-> h, inUse |-> used, lastUsed |-> t]

\* Mutant of Available: find() no longer looks at inUse.
Available_AnyEntry(pb) == TRUE

\* The predicate of this.pool.find(pb => !pb.inUse).
Available(pb) == ~pb.inUse

\* Array.prototype.find: the index of the first entry that is available,
\* 0 when there is none.
FindAvailable(pl) ==
  LET hits == {i \in 1..Len(pl) : Available(pl[i])}
  IN  IF hits = {} THEN 0 ELSE CHOOSE i \in hits : \A j \in hits : i <= j

\* this.pool.find(pb => pb.browser === browser): index or 0.
FindBrowser(pl, h) ==
  LET hits == {i \in 1..Len(pl) : pl[i].browser = h}
  IN  IF hits = {} THEN 0 ELSE CHOOSE i \in hits : \A j \in hits : i <= j

\* Mutant of Take: the entry is stamped and not marked in use.
Take_NotMarked(pl, i, t) == [pl EXCEPT ![i] = PooledBrowser(pl[i].browser, FALSE, t)]

\* available.inUse = true; available.lastUsed = Date.now();
Take(pl, i, t) == [pl EXCEPT ![i] = PooledBrowser(pl[i].browser, TRUE, t)]

\* acquire() may launch: if (this.pool.length < this.maxSize)
MayLaunch(pl) == Len(pl) < maxSize

\* The handles in a pool list.
HandlesOf(pl) == {pl[i].browser : i \in 1..Len(pl)}

\* browser.close() is called on the browsers hs.  Whether a close resolves
\* or rejects changes nothing the pool reads: every caller of close() in
\* the pool swallows the rejection (.catch(() => {})).
CloseCalled(st, hs) == [h \in Handles |-> IF h \in hs THEN "closed" ELSE st[h]]

\* acquire() on pool id, from the call to its first suspension (ps: the
\* pools as the caller found them): an available browser is taken and
\* returned; else a launch is started when the pool is below its limit;
\* else the caller starts polling.
AcquireSync(p, id, ps) ==
  LET pl == ps[id].pool
      i  == FindAvailable(pl)
  IN  IF i > 0
      THEN /\ pools' = [ps EXCEPT ![id].pool = Take(pl, i, now)]
           /\ browser' = [browser EXCEPT ![p] = pl[i].browser]
           /\ pc' = [pc EXCEPT ![p] = "holding"]
           /\ relSince' = [relSince EXCEPT ![p] = {}]
      ELSE /\ pools' = ps
           /\ browser' = [browser EXCEPT ![p] = 0]
           /\ pc' = [pc EXCEPT ![p] = IF MayLaunch(pl) THEN "launching" ELSE "waiting"]
           /\ relSince' = [relSince EXCEPT ![p] = {}]

\* chromium.launch resolved inside acquire(): the new browser is pushed as
\* in use and returned.  No re-check of the pool's length happens here.
LaunchOk(p) ==
  /\ pc[p] = "launching"
  /\ nextHandle < MaxHandles
  /\ LET h  == nextHandle + 1
         id == poolRef[p]
     IN  /\ nextHandle' = h
         /\ status' = [status EXCEPT ![h] = "open"]
         /\ pools' = [pools EXCEPT ![id].pool = Append(@, PooledBrowser(h, TRUE, now))]
         /\ browser' = [browser EXCEPT ![p] = h]
         /\ pc' = [pc EXCEPT ![p] = "holding"]
  /\ UNCHANGED <<evars, nPools, globalPool, now, poolRef, relSince, closer, rvars>>

\* The 100 ms polling timer of a waiting acquire() fires: an available
\* browser of the pool as it is now is taken and returned, else the timer
\* stays armed.
Poll(p) ==
  /\ pc[p] = "waiting"
  /\ LET id == poolRef[p]
         pl == pools[id].pool
         i  == FindAvailable(pl)
     IN  /\ i > 0
         /\ pools' = [pools EXCEPT ![id].pool = Take(pl, i, now)]
         /\ browser' = [browser EXCEPT ![p] = pl[i].browser]
         /\ pc' = [pc EXCEPT ![p] = "holding"]
  /\ UNCHANGED <<evars, nPools, globalPool, status, nextHandle, now, poolRef, relSince, closer, rvars>>

\* Mutant of Released: an unknown browser is added to the pool as free.
Released_AddsUnknown(pl, h, t) ==
  LET i == FindBrowser(pl, h)
  IN  IF i > 0 THEN [pl EXCEPT ![i] = PooledBrowser(h, FALSE, t)]
      ELSE Append(pl, PooledBrowser(h, FALSE, t))

\* release(browser) on pool id: a known browser is marked free and stamped;
\* an unknown one changes nothing.
Released(pl, h, t) ==
  LET i == FindBrowser(pl, h)
  IN  IF i > 0 THEN [pl EXCEPT ![i] = PooledBrowser(h, FALSE, t)] ELSE pl

\* Waiting callers of pool id note a release the pool knew.
NoteRelease(id, h) ==
  [q \in Procs |->
     IF pc[q] = "waiting" /\ poolRef[q] = id /\ FindBrowser(pools[id].pool, h) > 0
     THEN relSince[q] \cup {h} ELSE relSince[q]]

\* Mutant of Evictable: the sweep no longer spares a browser in use.
Evictable_IgnoresInUse(pb, t) == t - pb.lastUsed > idleTimeout

\* The eviction test of the cleanup timer:
\* !pb.inUse && now - pb.lastUsed > this.idleTimeout
Evictable(pb, t) == ~pb.inUse /\ t - pb.lastUsed > idleTimeout

\* The cleanup timer of pool id fires: every evictable entry is closed
\* (not awaited) and filtered out.
Sweep(id) ==
  /\ id <= nPools
  /\ pools[id].cleanupInterval
  /\ LET pl   == pools[id].pool
         gone == {pl[i].browser : i \in {j \in 1..Len(pl) : Evictable(pl[j], now)}}
     IN  /\ pools' = [pools EXCEPT ![id].pool =
                        SelectSeq(pl, LAMBDA pb : ~Evictable(pb, now))]
         /\ status' = CloseCalled(status, gone)
  /\ UNCHANGED <<evars, nPools, globalPool, nextHandle, now, pc, poolRef, browser, relSince, closer, rvars>>

\* closeAll() up to its await: the timer is cleared and close() is called
\* on every browser of the pool; the caller awaits all of them.
CloseAllBegin(id) ==
  /\ pools' = [pools EXCEPT ![id].cleanupInterval = FALSE]
  /\ status' = CloseCalled(status, HandlesOf(pools[id].pool))
  /\ closer' = [pc |-> "awaiting", pool |-> id, awaited |-> HandlesOf(pools[id].pool)]

\* closeAll() after its await (every awaited close has settled; a rejected
\* one is swallowed by .catch): this.pool = [].
CloseAllEnd(id) ==
  /\ closer.pc = "awaiting"
  /\ closer.pool = id
  /\ pools' = [pools EXCEPT ![id].pool = <<>>]
  /\ closer' = [pc |-> "idle", pool |-> 0, awaited |-> {}]

\* The render pipeline's variables when no call is running.
NoUrl == [valid |-> FALSE, pathname |-> <<>>]
NoError == 0
NoOutcome == [kind |-> "none", attempt |-> 0]
RenderIdle ==
  /\ usePool = [p \in Procs |-> FALSE]
  /\ attempt = [p \in Procs |-> 0]
  /\ createdBrowser = [p \in Procs |-> FALSE]
  /\ lastError = [p \in Procs |-> NoError]
  /\ outcome = [p \in Procs |-> NoOutcome]
  /\ delays = [p \in Procs |-> <<>>]
  /\ gave = [p \in Procs |-> 0]
  /\ context = [p \in Procs |-> "none"]
  /\ url = [p \in Procs |-> NoUrl]
  /\ probe = [p \in Procs |-> "none"]
  /\ docCalls = [p \in Procs |-> 0]

\* The aggregator's variables when no searchAllEngines call is running.
AggIdle ==
  /\ aggPc = "idle"
  /\ engineIdx = 0
  /\ aggregated = <<>>
  /\ engineErrors = <<>>
  /\ invoked = [e \in 1..NumEngines |-> 0]
  /\ returned = <<>>

\* No sanitizeUrl call on its own.
UrlIdle ==
  /\ uPc = "idle"
  /\ urlArg = <<>>
  /\ urlResult = [ok |-> FALSE, key |-> <<>>, href |-> <<>>]

\* maxFetch is optional: absent, or a number.
NoMaxFetch == [given |-> FALSE, value |-> 0]

\* No search_fetch call.
FetchIdle ==
  /\ fPc = "idle"
  /\ maxFetch = NoMaxFetch
  /\ fetchLimit = 0
  /\ enriched = <<>>
  /\ fetchErrors = <<>>
  /\ fetchIdx = 0
  /\ rendered = <<>>

\* A text, by what mergeExtractions reads of it: the length of
\* text.trim(), the number of pieces of text.split(/\s+/), and its
\* paragraphs (the pieces of text.split(/\n\n+/) that are not blank).
Text(length, words, paragraphs) ==
  [length |-> length, words |-> words, paragraphs |-> paragraphs]

\* The empty string: ''.split(/\s+/) has one piece.
EmptyText == Text(0, 1, <<>>)

\* What mergeExtractions returns: the text it starts from ("text", "ocr",
\* or "none" for the placeholder) and the paragraphs appended under
\* 'Additional content extracted from images' (none: no such section).
MergedText(body, extra) == [body |-> body, extra |-> extra]

\* No mergeExtractions call.
MergeIdle ==
  /\ mPc = "idle"
  /\ textContent = EmptyText
  /\ ocrContent = EmptyText
  /\ mergedContent = MergedText("none", <<>>)

\* No document extraction.
ExtractIdle ==
  /\ xPc = "idle"
  /\ textStep = "none"
  /\ ocrStep = "none"
  /\ hasEmbeddedText = FALSE
  /\ extractionMethod = ""

\* No recognition worker, no ocrImage and no cleanupOcr call.
OcrIdle ==
  /\ tesseractWorker = 0
  /\ workers = [w \in 1..MaxWorkers |-> "none"]
  /\ nextWorker = 0
  /\ oPc = [p \in Procs |-> "idle"]
  /\ oWorker = [p \in Procs |-> 0]
  /\ cleaner = [pc |-> "idle", worker |-> 0]

\* The other components at rest.
ElseIdle == AggIdle /\ UrlIdle /\ FetchIdle /\ MergeIdle /\ ExtractIdle /\ OcrIdle

\* ------------------------------------------------- callers of one pool

\* A caller calls pool.acquire().
Acquire(p) ==
  /\ pc[p] = "idle"
  /\ AcquireSync(p, poolRef[p], pools)
  /\ UNCHANGED <<evars, nPools, globalPool, status, nextHandle, now, poolRef, closer, rvars>>

\* chromium.launch rejected inside acquire(): acquire() rejects.
LaunchFail(p) ==
  /\ pc[p] = "launching"
  /\ pc' = [pc EXCEPT ![p] = "idle"]
  /\ UNCHANGED <<evars, pools, nPools, globalPool, status, nextHandle, now, poolRef,
                 browser, relSince, closer, rvars>>

\* The caller gives its browser back: pool.release(browser).
Release(p) ==
  /\ pc[p] = "holding"
  /\ LET id == poolRef[p]
     IN  /\ pools' = [pools EXCEPT ![id].pool = Released(@, browser[p], now)]
         /\ relSince' = NoteRelease(id, browser[p])
  /\ pc' = [pc EXCEPT ![p] = "idle"]
  /\ browser' = [browser EXCEPT ![p] = 0]
  /\ UNCHANGED <<evars, nPools, globalPool, status, nextHandle, now, poolRef, closer, rvars>>

\* A caller that holds nothing calls pool.release(h) with a browser the
\* pool does not know: one that never was in it, or one a sweep evicted.
ReleaseStray(p, h) ==
  /\ pc[p] = "idle"
  /\ h \notin HandlesOf(pools[poolRef[p]].pool)
  /\ pools' = [pools EXCEPT ![poolRef[p]].pool = Released(@, h, now)]
  /\ UNCHANGED <<evars, nPools, globalPool, status, nextHandle, now, pc, poolRef, browser,
                 relSince, closer, rvars>>

\* closeAll() is called on the pool.
CloseAll ==
  /\ closer.pc = "idle"
  /\ CloseAllBegin(1)
  /\ UNCHANGED <<evars, nPools, globalPool, nextHandle, now, pc, poolRef, browser, relSince, rvars>>

\* closeAll() resumes and completes.
CloseAllDone ==
  /\ CloseAllEnd(1)
  /\ UNCHANGED <<evars, nPools, globalPool, status, nextHandle, now, pc, poolRef, browser,
                 relSince, rvars>>

\* Time passes.
Tick ==
  /\ now < MaxTicks * TickMs
  /\ now' = now + TickMs
  /\ UNCHANGED <<evars, pools, nPools, globalPool, status, nextHandle, pc, poolRef, browser,
                 relSince, closer, rvars>>

\* One BrowserPool as getBrowserPool() leaves it (constructed, cleanup
\* timer started), used directly by every caller.
InitPool ==
  /\ pools = [id \in PoolIds |-> IF id = 1 THEN [NewPool EXCEPT !.cleanupInterval = TRUE]
                                 ELSE NewPool]
  /\ nPools = 1
  /\ globalPool = 1
  /\ status = [h \in Handles |-> "none"]
  /\ nextHandle = 0
  /\ now = 0
  /\ pc = [p \in Procs |-> "idle"]
  /\ poolRef = [p \in Procs |-> 1]
  /\ browser = [p \in Procs |-> 0]
  /\ relSince = [p \in Procs |-> {}]
  /\ closer = [pc |-> "idle", pool |-> 0, awaited |-> {}]
  /\ RenderIdle
  /\ ElseIdle

NextPool ==
  \/ \E p \in Procs : Acquire(p)
  \/ \E p \in Procs : LaunchOk(p)
  \/ \E p \in Procs : LaunchFail(p)
  \/ \E p \in Procs : Poll(p)
  \/ \E p \in Procs : Release(p)
  \/ \E p \in Procs : \E h \in Handles : ReleaseStray(p, h)
  \/ Sweep(1)
  \/ CloseAll
  \/ CloseAllDone
  \/ Tick

SpecPool == InitPool /\ [][NextPool]_vars

\* SpecPool with the scheduling the code gives: a polling timer that is
\* armed keeps firing (setInterval, 100 ms), so a waiter that finds a free
\* browser again and again takes one; a started launch and a started
\* closeAll settle; and every holder gives its browser back.
SpecPoolLive ==
  /\ SpecPool
  /\ \A p \in Procs : SF_vars(Poll(p))
  /\ \A p \in Procs : WF_vars(LaunchOk(p) \/ LaunchFail(p))
  /\ \A p \in Procs : WF_vars(Release(p))
  /\ WF_vars(CloseAllDone)

\* ------------------------------------------------- the process-wide pool

\* Mutant of GetBrowserPool: a missing singleton is replaced by the first
\* pool ever constructed.
GetBrowserPool_FirstPool == IF globalPool # 0 THEN globalPool ELSE 1

\* getBrowserPool(): the pool it returns.  A missing singleton is
\* constructed (the next pool id) and its cleanup timer started.
GetBrowserPool == IF globalPool # 0 THEN globalPool ELSE nPools + 1

\* getBrowserPool(): the pools after the call.
PoolsAfterGet ==
  IF globalPool # 0 THEN pools
  ELSE [pools EXCEPT ![nPools + 1] = [NewPool EXCEPT !.cleanupInterval = TRUE]]

\* closeBrowserPool() up to its await: closeAll() of the singleton, if any.
CloseBrowserPool ==
  /\ closer.pc = "idle"
  /\ IF globalPool # 0
     THEN CloseAllBegin(globalPool)
     ELSE UNCHANGED <<pools, status, closer>>
  /\ UNCHANGED <<evars, nPools, globalPool, nextHandle, now, pc, poolRef, browser, relSince, rvars>>

\* closeBrowserPool() after closeAll() completed: globalPool = undefined.
CloseBrowserPoolDone ==
  /\ CloseAllEnd(closer.pool)
  /\ globalPool' = 0
  /\ UNCHANGED <<evars, nPools, status, nextHandle, now, pc, poolRef, browser, relSince, rvars>>

\* A concurrent render call reaches const pool = getBrowserPool() and
\* await pool.acquire().
OtherAcquire(p) ==
  /\ pc[p] = "idle"
  /\ globalPool # 0 \/ nPools < MaxPools
  /\ poolRef' = [poolRef EXCEPT ![p] = GetBrowserPool]
  /\ globalPool' = GetBrowserPool
  /\ nPools' = IF globalPool = 0 THEN nPools + 1 ELSE nPools
  /\ AcquireSync(p, GetBrowserPool, PoolsAfterGet)
  /\ UNCHANGED <<evars, status, nextHandle, now, closer, rvars>>

\* ------------------------------------------------- renderPageToMarkdown

\* const MAX_ATTEMPTS = 3
MAX_ATTEMPTS == 3

\* Mutant of Backoff: the same wait after every failed attempt.
Backoff_Flat(a) == 250

\* delay(250 * (attempt + 1))
Backoff(a) == 250 * (a + 1)

\* Mutant of Recorded: only the first error is kept.
Recorded_First(old, err) == IF old = NoError THEN err ELSE old

\* lastError = error
Recorded(old, err) == err

\* if (attempt < MAX_ATTEMPTS - 1): a delay follows the failed attempt.
Retries(a) == a < MAX_ATTEMPTS - 1

\* throw new Error(lastError instanceof Error ? lastError.message
\*                 : `Unknown error rendering ${url}`): the message of the
\* recorded error (attempt 0: none was recorded, the "Unknown error" text).
Thrown(err) == [kind |-> "error", attempt |-> err]

\* The attempt works on a browser of the pool / on one it launched.
Pooled(p) == browser[p] # 0 /\ poolRef[p] # 0 /\ ~createdBrowser[p]
Own(p) == browser[p] # 0 /\ createdBrowser[p]

\* A string is the sequence of its characters; a URL scheme with its colon
\* ("https:") counts as one character.

\* The URLs the model renders, as new URL(url) sees them: parsable or not,
\* and the pathname as its characters.
RenderUrls ==
  { [valid |-> TRUE,  pathname |-> <<"/", "a">>],
    [valid |-> TRUE,  pathname |-> <<"/", "a", ".", "P", "D", "F">>],
    [valid |-> FALSE, pathname |-> <<"a", ".", "p", "d", "f">>] }

\* String.prototype.toLowerCase, on the characters the model uses.
LowerChar(c) ==
  CASE c = "P" -> "p" [] c = "D" -> "d" [] c = "F" -> "f" [] c = "A" -> "a"
    [] c = "H" -> "h" [] c = "B" -> "b" [] c = "Q" -> "q"
    [] c = "HTTP:" -> "http:" [] c = "HTTPS:" -> "https:" [] c = "FTP:" -> "ftp:"
    [] OTHER -> c
ToLowerCase(str) == [i \in 1..Len(str) |-> LowerChar(str[i])]

\* String.prototype.endsWith
EndsWith(str, suffix) ==
  /\ Len(str) >= Len(suffix)
  /\ SubSeq(str, Len(str) - Len(suffix) + 1, Len(str)) = suffix

\* Mutant of isPdfUrl: the pathname is compared without lower-casing.
isPdfUrl_CaseSensitive(u) == u.valid /\ EndsWith(u.pathname, <<".", "p", "d", "f">>)

\* isPdfUrl: new URL(url).pathname.toLowerCase().endsWith('.pdf'); false
\* when the URL does not parse.
isPdfUrl(u) == u.valid /\ EndsWith(ToLowerCase(u.pathname), <<".", "p", "d", "f">>)

\* The call is on the document route: the suffix test or the probe said PDF.
Document(p) == isPdfUrl(url[p]) \/ probe[p] = "pdf"

\* renderPageToMarkdown(url, usePool) is called.  A URL that ends in .pdf
\* goes to parsePdfFromUrl at once (|| short-circuits); for any other the
\* HEAD probe of isPdfContentType is awaited.
Call(p, up, u) ==
  /\ pc[p] = "idle"
  /\ url' = [url EXCEPT ![p] = u]
  /\ usePool' = [usePool EXCEPT ![p] = up]
  /\ IF isPdfUrl(u)
     THEN /\ pc' = [pc EXCEPT ![p] = "pdf"]
          /\ docCalls' = [docCalls EXCEPT ![p] = @ + 1]
     ELSE /\ pc' = [pc EXCEPT ![p] = "probe"]
          /\ UNCHANGED docCalls
  /\ UNCHANGED <<evars, pools, nPools, globalPool, status, nextHandle, now, poolRef, browser,
                 relSince, closer, attempt, createdBrowser, lastError, outcome,
                 delays, gave, context, probe>>

\* The HEAD probe answered with a content type that includes 'pdf' (only a
\* URL that fetch accepts gets an answer): parsePdfFromUrl is awaited.
ProbePdf(p) ==
  /\ pc[p] = "probe"
  /\ url[p].valid
  /\ probe' = [probe EXCEPT ![p] = "pdf"]
  /\ pc' = [pc EXCEPT ![p] = "pdf"]
  /\ docCalls' = [docCalls EXCEPT ![p] = @ + 1]
  /\ UNCHANGED <<evars, pools, nPools, globalPool, status, nextHandle, now, poolRef, browser,
                 relSince, closer, usePool, attempt, createdBrowser, lastError,
                 outcome, delays, gave, context, url>>

\* parsePdfFromUrl resolved: return { html: '', markdown }.
PdfOk(p) ==
  /\ pc[p] = "pdf"
  /\ pc' = [pc EXCEPT ![p] = "done"]
  /\ outcome' = [outcome EXCEPT ![p] = [kind |-> "pdf", attempt |-> 0]]
  /\ UNCHANGED <<evars, pools, nPools, globalPool, status, nextHandle, now, poolRef, browser,
                 relSince, closer, usePool, attempt, createdBrowser, lastError,
                 delays, gave, context, dvars>>

\* parsePdfFromUrl rejected: throw new Error(`PDF rendering failed: ...`).
PdfFail(p) ==
  /\ pc[p] = "pdf"
  /\ pc' = [pc EXCEPT ![p] = "failed"]
  /\ outcome' = [outcome EXCEPT ![p] = [kind |-> "pdfError", attempt |-> 0]]
  /\ UNCHANGED <<evars, pools, nPools, globalPool, status, nextHandle, now, poolRef, browser,
                 relSince, closer, usePool, attempt, createdBrowser, lastError,
                 delays, gave, context, dvars>>

\* The head of one loop iteration: let browser = pool ? await
\* pool.acquire() : null; let createdBrowser = false; and, without a pool,
\* the launch of a browser of the attempt's own.
BeginAttempt(p, id, ps) ==
  /\ createdBrowser' = [createdBrowser EXCEPT ![p] = FALSE]
  /\ gave' = [gave EXCEPT ![p] = 0]
  /\ context' = [context EXCEPT ![p] = "none"]
  /\ IF id # 0
     THEN AcquireSync(p, id, ps)
     ELSE /\ pools' = ps
          /\ browser' = [browser EXCEPT ![p] = 0]
          /\ pc' = [pc EXCEPT ![p] = "ephLaunch"]
          /\ UNCHANGED relSince

\* The probe reported no PDF, or failed: const pool = usePool ? getBrowserPool() :
\* null, and the first attempt begins.
ProbeDone(p) ==
  /\ pc[p] = "probe"
  /\ usePool[p] => (globalPool # 0 \/ nPools < MaxPools)
  /\ LET id == IF usePool[p] THEN GetBrowserPool ELSE 0
     IN  /\ poolRef' = [poolRef EXCEPT ![p] = id]
         /\ globalPool' = IF usePool[p] THEN id ELSE globalPool
         /\ nPools' = IF usePool[p] /\ globalPool = 0 THEN nPools + 1 ELSE nPools
         /\ BeginAttempt(p, id, IF usePool[p] THEN PoolsAfterGet ELSE pools)
  /\ probe' = [probe EXCEPT ![p] = "other"]
  /\ UNCHANGED <<evars, status, nextHandle, now, closer, usePool, attempt, lastError,
                 outcome, delays, url, docCalls>>

\* The rest of a catch block once the browser is given back: the backoff
\* delay while attempts remain, else the loop ends and the call throws.
AfterCatch(p, err) ==
  IF Retries(attempt[p])
  THEN /\ pc' = [pc EXCEPT ![p] = "backoff"]
       /\ delays' = [delays EXCEPT ![p] = Append(@, Backoff(attempt[p]))]
       /\ UNCHANGED <<attempt, outcome>>
  ELSE /\ pc' = [pc EXCEPT ![p] = "failed"]
       /\ attempt' = [attempt EXCEPT ![p] = @ + 1]
       /\ outcome' = [outcome EXCEPT ![p] = Thrown(err)]
       /\ UNCHANGED delays

\* catch (error), reached from the step at: the error is recorded; a pooled
\* browser is released, a browser of the attempt's own is closed (awaited,
\* rejection swallowed).  The context is not touched.
Catch(p, at) ==
  LET err == Recorded(lastError[p], attempt[p] + 1)
      h   == browser[p]
      id  == poolRef[p]
  IN  /\ lastError' = [lastError EXCEPT ![p] = err]
      /\ pools' = IF Pooled(p) THEN [pools EXCEPT ![id].pool = Released(@, h, now)]
                  ELSE pools
      /\ relSince' = IF Pooled(p) THEN NoteRelease(id, h) ELSE relSince
      /\ status' = IF Own(p) THEN CloseCalled(status, {h}) ELSE status
      /\ gave' = [gave EXCEPT ![p] = IF Pooled(p) \/ Own(p) THEN @ + 1 ELSE @]
      /\ context' = [context EXCEPT ![p] = IF at = "ctxClose" THEN "closeFailed" ELSE @]
      /\ IF Own(p)
         THEN /\ pc' = [pc EXCEPT ![p] = "catchClose"]
              /\ UNCHANGED <<attempt, outcome, delays>>
         ELSE AfterCatch(p, err)
      /\ UNCHANGED <<nPools, globalPool, nextHandle, now, poolRef, browser, closer,
                     usePool, createdBrowser, dvars, evars>>

\* pool.acquire() rejected (chromium.launch failed inside it).  The call
\* is outside the try block: the rejection leaves renderPageToMarkdown.
AcquireRejects(p) ==
  /\ pc[p] = "launching"
  /\ pc' = [pc EXCEPT ![p] = "failed"]
  /\ outcome' = [outcome EXCEPT ![p] =
                   [kind |-> "rejected", attempt |-> attempt[p] + 1]]
  /\ UNCHANGED <<dvars, evars, pools, nPools, globalPool, status, nextHandle, now, poolRef, browser,
                 relSince, closer, usePool, attempt, createdBrowser, lastError,
                 delays, gave, context>>

\* Without a pool: chromium.launch resolved; createdBrowser = true.
OwnLaunchOk(p) ==
  /\ pc[p] = "ephLaunch"
  /\ nextHandle < MaxHandles
  /\ nextHandle' = nextHandle + 1
  /\ status' = [status EXCEPT ![nextHandle + 1] = "open"]
  /\ browser' = [browser EXCEPT ![p] = nextHandle + 1]
  /\ createdBrowser' = [createdBrowser EXCEPT ![p] = TRUE]
  /\ pc' = [pc EXCEPT ![p] = "holding"]
  /\ UNCHANGED <<dvars, evars, pools, nPools, globalPool, now, poolRef, relSince, closer, usePool,
                 attempt, lastError, outcome, delays, gave, context>>

\* Without a pool: the import or chromium.launch rejected.
OwnLaunchFail(p) ==
  /\ pc[p] = "ephLaunch"
  /\ Catch(p, "launch")

\* browser.newContext() resolved (the browser is still open).
NewContextOk(p) ==
  /\ pc[p] = "holding"
  /\ status[browser[p]] = "open"
  /\ pc' = [pc EXCEPT ![p] = "page"]
  /\ context' = [context EXCEPT ![p] = "open"]
  /\ UNCHANGED <<evars, pools, nPools, globalPool, status, nextHandle, now, poolRef, browser,
                 relSince, closer, usePool, attempt, createdBrowser, lastError,
                 outcome, delays, gave, dvars>>

\* browser.newContext() rejected.
NewContextFail(p) ==
  /\ pc[p] = "holding"
  /\ Catch(p, "newContext")

\* newPage, goto, waitForLoadState, content and convertHtmlToMarkdown all
\* succeeded: context.close() is awaited.
PageOk(p) ==
  /\ pc[p] = "page"
  /\ status[browser[p]] = "open"
  /\ pc' = [pc EXCEPT ![p] = "ctxClose"]
  /\ UNCHANGED <<evars, pools, nPools, globalPool, status, nextHandle, now, poolRef, browser,
                 relSince, closer, rvars>>

\* One of newPage, goto, content, convertHtmlToMarkdown threw.
PageFail(p) ==
  /\ pc[p] = "page"
  /\ Catch(p, "page")

\* context.close() resolved: a pooled browser is released and the result
\* returned; a browser of the attempt's own is closed (awaited).
ContextCloseOk(p) ==
  /\ pc[p] = "ctxClose"
  /\ LET h  == browser[p]
         id == poolRef[p]
     IN  /\ pools' = IF Pooled(p) THEN [pools EXCEPT ![id].pool = Released(@, h, now)]
                     ELSE pools
         /\ relSince' = IF Pooled(p) THEN NoteRelease(id, h) ELSE relSince
         /\ status' = IF Own(p) THEN CloseCalled(status, {h}) ELSE status
         /\ gave' = [gave EXCEPT ![p] = @ + 1]
         /\ context' = [context EXCEPT ![p] = "closed"]
         /\ pc' = [pc EXCEPT ![p] = IF Own(p) THEN "ephClose" ELSE "done"]
         /\ outcome' = IF Own(p) THEN outcome
                       ELSE [outcome EXCEPT ![p] =
                               [kind |-> "ok", attempt |-> attempt[p] + 1]]
  /\ UNCHANGED <<dvars, evars, nPools, globalPool, nextHandle, now, poolRef, browser, closer, usePool,
                 attempt, createdBrowser, lastError, delays>>

\* context.close() rejected.
ContextCloseFail(p) ==
  /\ pc[p] = "ctxClose"
  /\ Catch(p, "ctxClose")

\* The attempt's own browser.close() resolved: return { html, markdown }.
OwnCloseOk(p) ==
  /\ pc[p] = "ephClose"
  /\ pc' = [pc EXCEPT ![p] = "done"]
  /\ outcome' = [outcome EXCEPT ![p] =
                   [kind |-> "ok", attempt |-> attempt[p] + 1]]
  /\ UNCHANGED <<dvars, evars, pools, nPools, globalPool, status, nextHandle, now, poolRef, browser,
                 relSince, closer, usePool, attempt, createdBrowser, lastError,
                 delays, gave, context>>

\* The attempt's own browser.close() rejected inside the try block.
OwnCloseFail(p) ==
  /\ pc[p] = "ephClose"
  /\ Catch(p, "close")

\* The catch block's browser.close().catch(() => {}) settled.
CatchCloseDone(p) ==
  /\ pc[p] = "catchClose"
  /\ AfterCatch(p, lastError[p])
  /\ UNCHANGED <<dvars, evars, pools, nPools, globalPool, status, nextHandle, now, poolRef, browser,
                 relSince, closer, usePool, createdBrowser, lastError, gave, context>>

\* The backoff delay elapsed: attempt += 1 and the next attempt begins.
BackoffDone(p) ==
  /\ pc[p] = "backoff"
  /\ attempt' = [attempt EXCEPT ![p] = @ + 1]
  /\ BeginAttempt(p, poolRef[p], pools)
  /\ UNCHANGED <<dvars, evars, nPools, globalPool, status, nextHandle, now, poolRef, closer, usePool,
                 lastError, outcome, delays>>

\* The caller takes the result or the error; the call's locals are gone.
Return(p) ==
  /\ pc[p] \in {"done", "failed"}
  /\ pc' = [pc EXCEPT ![p] = "idle"]
  /\ usePool' = [usePool EXCEPT ![p] = FALSE]
  /\ attempt' = [attempt EXCEPT ![p] = 0]
  /\ createdBrowser' = [createdBrowser EXCEPT ![p] = FALSE]
  /\ lastError' = [lastError EXCEPT ![p] = NoError]
  /\ outcome' = [outcome EXCEPT ![p] = NoOutcome]
  /\ delays' = [delays EXCEPT ![p] = <<>>]
  /\ gave' = [gave EXCEPT ![p] = 0]
  /\ context' = [context EXCEPT ![p] = "none"]
  /\ poolRef' = [poolRef EXCEPT ![p] = 0]
  /\ browser' = [browser EXCEPT ![p] = 0]
  /\ relSince' = [relSince EXCEPT ![p] = {}]
  /\ url' = [url EXCEPT ![p] = NoUrl]
  /\ probe' = [probe EXCEPT ![p] = "none"]
  /\ docCalls' = [docCalls EXCEPT ![p] = 0]
  /\ UNCHANGED <<evars, pools, nPools, globalPool, status, nextHandle, now, closer>>

\* The process at start: no pool constructed, no call running.
Init ==
  /\ pools = [id \in PoolIds |-> NewPool]
  /\ nPools = 0
  /\ globalPool = 0
  /\ status = [h \in Handles |-> "none"]
  /\ nextHandle = 0
  /\ now = 0
  /\ pc = [p \in Procs |-> "idle"]
  /\ poolRef = [p \in Procs |-> 0]
  /\ browser = [p \in Procs |-> 0]
  /\ relSince = [p \in Procs |-> {}]
  /\ closer = [pc |-> "idle", pool |-> 0, awaited |-> {}]
  /\ RenderIdle
  /\ ElseIdle

Next ==
  \/ \E p \in Renderers, up \in BOOLEAN, u \in RenderUrls : Call(p, up, u)
  \/ \E p \in Renderers : ProbeDone(p)
  \/ \E p \in Renderers : ProbePdf(p)
  \/ \E p \in Renderers : PdfOk(p)
  \/ \E p \in Renderers : PdfFail(p)
  \/ \E p \in Procs : LaunchOk(p)
  \/ \E p \in Renderers : AcquireRejects(p)
  \/ \E p \in Procs : Poll(p)
  \/ \E p \in Renderers : OwnLaunchOk(p)
  \/ \E p \in Renderers : OwnLaunchFail(p)
  \/ \E p \in Renderers : NewContextOk(p)
  \/ \E p \in Renderers : NewContextFail(p)
  \/ \E p \in Renderers : PageOk(p)
  \/ \E p \in Renderers : PageFail(p)
  \/ \E p \in Renderers : ContextCloseOk(p)
  \/ \E p \in Renderers : ContextCloseFail(p)
  \/ \E p \in Renderers : OwnCloseOk(p)
  \/ \E p \in Renderers : OwnCloseFail(p)
  \/ \E p \in Renderers : CatchCloseDone(p)
  \/ \E p \in Renderers : BackoffDone(p)
  \/ \E p \in Renderers : Return(p)
  \/ \E p \in Others : OtherAcquire(p)
  \/ \E p \in Others : LaunchFail(p)
  \/ \E p \in Others : Release(p)
  \/ CloseBrowserPool
  \/ CloseBrowserPoolDone

Spec == Init /\ [][Next]_vars

\* ------------------------------------------------------ searchAllEngines

\* const engines: EngineEntry[] (the names, in the array's order)
EngineNames == <<"AOL", "Brave", "Bing", "DuckDuckGo", "Yahoo", "Startpage", "Yandex">>

\* The engines the model runs: the first NumEngines of the array.
engines == SubSeq(EngineNames, 1, NumEngines)

\* String.prototype.trim
RECURSIVE TrimStart(_)
TrimStart(str) ==
  IF str # <<>> /\ Head(str) = " " THEN TrimStart(Tail(str)) ELSE str
RECURSIVE TrimEnd(_)
TrimEnd(str) ==
  IF str # <<>> /\ str[Len(str)] = " " THEN TrimEnd(SubSeq(str, 1, Len(str) - 1))
  ELSE str
Trim(str) == TrimEnd(TrimStart(str))

\* String.prototype.startsWith
StartsWith(str, prefix) ==
  Len(str) >= Len(prefix) /\ SubSeq(str, 1, Len(prefix)) = prefix

\* /^https?:\/\//i.test(str)
TestHttp(str) ==
  /\ Len(str) >= 3
  /\ LowerChar(str[1]) \in {"http:", "https:"}
  /\ str[2] = "/" /\ str[3] = "/"

\* The longest prefix of str without a character of stops.
RECURSIVE Upto(_, _)
Upto(str, stops) ==
  IF str = <<>> \/ Head(str) \in stops THEN <<>>
  ELSE <<Head(str)>> \o Upto(Tail(str), stops)

\* str without its first n characters.
Drop(str, n) == SubSeq(str, n + 1, Len(str))

\* str without its leading slashes.
RECURSIVE SkipSlashes(_)
SkipSlashes(str) ==
  IF str # <<>> /\ Head(str) = "/" THEN SkipSlashes(Tail(str)) ELSE str

\* new URL(str) for a string that passed TestHttp: the scheme and the host
\* are lower-cased, the slashes before the host are skipped, an empty host
\* is a TypeError (ok = FALSE), an empty path is "/".
ParseUrl(str) ==
  LET rest  == SkipSlashes(Tail(str))
      host  == Upto(rest, {"/", "?", "#"})
      rest2 == Drop(rest, Len(host))
      path  == Upto(rest2, {"?", "#"})
      rest3 == Drop(rest2, Len(path))
      query == Upto(rest3, {"#"})
      hash  == Drop(rest3, Len(query))
  IN  [ok       |-> host # <<>>,
       protocol |-> LowerChar(Head(str)),
       host     |-> ToLowerCase(host),
       pathname |-> IF path = <<>> THEN <<"/">> ELSE path,
       search   |-> query,
       hash     |-> hash]

\* URL.prototype.toString
Href(parsed) ==
  <<parsed.protocol, "/", "/">> \o parsed.host \o parsed.pathname
    \o parsed.search \o parsed.hash

\* Mutant of StripTrailingSlashes: one trailing slash is removed.
StripTrailingSlashes_One(path) ==
  IF path # <<>> /\ path[Len(path)] = "/" THEN SubSeq(path, 1, Len(path) - 1)
  ELSE path

\* pathname.replace(/\/+$/, ''): every trailing slash is removed.
RECURSIVE StripTrailingSlashes(_)
StripTrailingSlashes(path) ==
  IF path # <<>> /\ path[Len(path)] = "/"
  THEN StripTrailingSlashes(SubSeq(path, 1, Len(path) - 1))
  ELSE path

\* parsed.pathname = value (an http(s) URL has no empty path).
SetPathname(parsed, value) ==
  [parsed EXCEPT !.pathname = IF value = <<>> THEN <<"/">> ELSE value]

\* sanitizeUrl's return undefined.
Undefined == [ok |-> FALSE, key |-> <<>>, href |-> <<>>]

\* sanitizeUrl(rawUrl): { key, href } or undefined.
sanitizeUrl(rawUrl) ==
  LET trimmed0 == Trim(rawUrl)
      trimmed  == IF StartsWith(trimmed0, <<"/", "/">>) THEN <<"https:">> \o trimmed0
                  ELSE trimmed0
      parsed0  == ParseUrl(trimmed)
      parsed1  == [parsed0 EXCEPT !.hash = <<>>]
      parsed   == IF parsed1.pathname # <<"/">>
                  THEN SetPathname(parsed1, StripTrailingSlashes(parsed1.pathname))
                  ELSE parsed1
      normalizedHref == Href(parsed)
  IN  IF rawUrl = <<>> \/ trimmed0 = <<>> THEN Undefined
      ELSE IF ~TestHttp(trimmed) THEN Undefined
      ELSE IF ~parsed0.ok THEN Undefined
      ELSE [ok |-> TRUE, key |-> ToLowerCase(normalizedHref), href |-> normalizedHref]

\* Mutant of MapGet: the entry is looked up by its url, not by its key.
MapGet_ByUrl(accumulator, key) ==
  LET hits == {i \in 1..Len(accumulator) : accumulator[i].url = key}
  IN  IF hits = {} THEN 0 ELSE CHOOSE i \in hits : TRUE

\* accumulator.get(key): the index of the entry, 0 when there is none.
MapGet(accumulator, key) ==
  LET hits == {i \in 1..Len(accumulator) : accumulator[i].key = key}
  IN  IF hits = {} THEN 0 ELSE CHOOSE i \in hits : TRUE

\* existing.sources.includes(source)
Includes(sources, source) == \E i \in 1..Len(sources) : sources[i] = source

\* Mutant of Backfill: a non-empty incoming value replaces the field.
Backfill_Overwrites(existing, incoming) == IF incoming # "" THEN incoming ELSE existing

\* if (!existing.field && field) existing.field = field
Backfill(existing, incoming) ==
  IF existing = "" /\ incoming # "" THEN incoming ELSE existing

\* Mutant of MergeExisting: a source is not added to an existing record.
MergeExisting_KeepsSources(existing, title, snippet, source) ==
  [existing EXCEPT
     !.snippet = Backfill(@, snippet),
     !.title   = Backfill(@, title)]

\* mergeResult, the branch if (existing): the source is pushed unless
\* listed, an empty snippet and an empty title are filled.
MergeExisting(existing, title, snippet, source) ==
  [existing EXCEPT
     !.sources = IF Includes(existing.sources, source) THEN @ ELSE Append(@, source),
     !.snippet = Backfill(@, snippet),
     !.title   = Backfill(@, title)]

\* Mutant of Merged: the merged record moves to the end of the Map.
Merged_MovesToEnd(accumulator, i, entry) ==
  Append(SubSeq(accumulator, 1, i - 1) \o SubSeq(accumulator, i + 1, Len(accumulator)),
         entry)

\* The record at position i was changed in place (the Map keeps its place).
Merged(accumulator, i, entry) == [accumulator EXCEPT ![i] = entry]

\* mergeResult(accumulator, incoming, source).  SearchResult declares
\* title and snippet as strings, so the ?? defaults never apply.
mergeResult(accumulator, incoming, source) ==
  LET sanitized == sanitizeUrl(incoming.url)
      i         == MapGet(accumulator, sanitized.key)
  IN  IF ~sanitized.ok THEN accumulator
      ELSE IF i > 0
      THEN Merged(accumulator, i,
                  MergeExisting(accumulator[i], incoming.title, incoming.snippet,
                                source))
      ELSE Append(accumulator,
                  [key |-> sanitized.key, title |-> incoming.title,
                   url |-> sanitized.href, snippet |-> incoming.snippet,
                   sources |-> <<source>>])

\* for (const result of results) mergeResult(aggregated, result, name)
RECURSIVE MergeAll(_, _, _)
MergeAll(accumulator, results, name) ==
  IF results = <<>> THEN accumulator
  ELSE MergeAll(mergeResult(accumulator, Head(results), name), Tail(results), name)

\* What the engines of the model answer with: SearchResult objects.
SearchResults ==
  { [title |-> "",  url |-> <<"https:", "/", "/", "h", "/", "a">>, snippet |-> "x"],
    [title |-> "T", url |-> <<"/", "/", "H", "/", "A", "/", "#", "f">>, snippet |-> "y"],
    [title |-> "U", url |-> <<"https:", "/", "/", "h", "/", "a", "/">>, snippet |-> ""],
    [title |-> "U", url |-> <<"https:", "/", "/", "h", "/", "b">>, snippet |-> "x"],
    [title |-> "T", url |-> <<"ftp:", "/", "/", "h", "/", "a">>, snippet |-> "y"] }

\* The result lists an engine.search() resolves with.
ResultLists == UNION {[1..n -> SearchResults] : n \in 0..MaxResults}

\* What an engine.search() rejects with: an Error, or another value.
SearchErrors == { [isError |-> TRUE, text |-> "timeout"],
                  [isError |-> FALSE, text |-> "boom"] }

\* error instanceof Error ? error.message : String(error)
ErrorMessage(error) == error.text

\* `${name}: ${message}`
EngineError(name, message) == <<name, ": ", message>>

\* Mutant of AfterFailure: a failing engine ends the loop.
AfterFailure_Abort(i) == NumEngines + 1

\* The catch block is inside the loop body: the loop goes on with the next
\* engine after a failure.
AfterFailure(i) == i + 1

\* The for loop moves to engine i: its search() is called and awaited, or,
\* past the last engine, the call returns.
LoopTo(i) ==
  /\ engineIdx' = i
  /\ IF i <= NumEngines
     THEN /\ invoked' = [invoked EXCEPT ![i] = @ + 1]
          /\ aggPc' = "searching"
     ELSE /\ aggPc' = "returned"
          /\ UNCHANGED invoked

\* searchAllEngines(query, region) is called.
SearchAll ==
  /\ aggPc = "idle"
  /\ aggregated' = <<>>
  /\ engineErrors' = <<>>
  /\ returned' = <<>>
  /\ LoopTo(1)
  /\ UNCHANGED aRest

\* The awaited engine.search() resolved with results: each is merged.
EngineOk(results) ==
  /\ aggPc = "searching"
  /\ aggregated' = MergeAll(aggregated, results, engines[engineIdx])
  /\ returned' = Append(returned, [ok |-> TRUE, results |-> results, error |-> ""])
  /\ LoopTo(engineIdx + 1)
  /\ UNCHANGED <<engineErrors, aRest>>

\* The awaited engine.search() rejected.
EngineFail(error) ==
  /\ aggPc = "searching"
  /\ engineErrors' = Append(engineErrors,
                            EngineError(engines[engineIdx], ErrorMessage(error)))
  /\ returned' = Append(returned, [ok |-> FALSE, results |-> <<>>, error |-> error.text])
  /\ LoopTo(AfterFailure(engineIdx))
  /\ UNCHANGED <<aggregated, aRest>>

\* The caller has the { results, engineErrors } of the call.
SearchAllReturn ==
  /\ aggPc = "returned"
  /\ aggPc' = "idle"
  /\ engineIdx' = 0
  /\ aggregated' = <<>>
  /\ engineErrors' = <<>>
  /\ invoked' = [e \in 1..NumEngines |-> 0]
  /\ returned' = <<>>
  /\ UNCHANGED aRest

NextAgg ==
  \/ SearchAll
  \/ \E results \in ResultLists : EngineOk(results)
  \/ \E error \in SearchErrors : EngineFail(error)
  \/ SearchAllReturn

SpecAgg == Init /\ [][NextAgg]_vars

\* ----------------------------------------------------------- sanitizeUrl

\* n slashes.
Slashes(n) == [i \in 1..n |-> "/"]

\* A raw URL put together from its parts: padding, scheme, the slashes
\* after it, host, path and fragment.
ComposeUrl(pad, scheme, slashes, host, path, frag) ==
  pad \o scheme \o slashes \o host \o path \o frag \o pad

UrlPads == {<<>>, <<" ">>}
UrlSchemes == {<<>>, <<"https:">>, <<"HTTP:">>, <<"ftp:">>}
UrlSlashes == {<<>>, <<"/", "/">>}
UrlHosts == {<<>>, <<"H">>}
UrlPaths == {<<>>} \cup {Slashes(n) : n \in 1..MaxSlashes}
              \cup {<<"/", "A">> \o Slashes(n) : n \in 0..MaxSlashes}
UrlFrags == {<<>>, <<"#", "f">>}

\* The strings sanitizeUrl is called with.
RawUrls ==
  {ComposeUrl(pad, scheme, slashes, host, path, frag) :
     pad \in UrlPads, scheme \in UrlSchemes, slashes \in UrlSlashes,
     host \in UrlHosts, path \in UrlPaths, frag \in UrlFrags}

\* sanitizeUrl(rawUrl) is called and returns.
SanitizeUrl ==
  /\ uPc = "called"
  /\ urlResult' = sanitizeUrl(urlArg)
  /\ uPc' = "returned"
  /\ UNCHANGED <<urlArg, uRest>>

\* A call of sanitizeUrl with one of the raw URLs.
InitUrl ==
  /\ pools = [id \in PoolIds |-> NewPool]
  /\ nPools = 0
  /\ globalPool = 0
  /\ status = [h \in Handles |-> "none"]
  /\ nextHandle = 0
  /\ now = 0
  /\ pc = [p \in Procs |-> "idle"]
  /\ poolRef = [p \in Procs |-> 0]
  /\ browser = [p \in Procs |-> 0]
  /\ relSince = [p \in Procs |-> {}]
  /\ closer = [pc |-> "idle", pool |-> 0, awaited |-> {}]
  /\ RenderIdle
  /\ AggIdle
  /\ FetchIdle
  /\ ExtractIdle
  /\ OcrIdle
  /\ MergeIdle
  /\ uPc = "called"
  /\ urlArg \in RawUrls
  /\ urlResult = Undefined

NextUrl == SanitizeUrl

SpecUrl == InitUrl /\ [][NextUrl]_vars

\* ---------------------------------------------------------- search_fetch

\* truncateMarkdown(markdown, limit = 40_000)
limit == 40000

\* The length of '\n\n... (truncated)'.
TruncatedMark == 17

\* The smaller and the larger of two numbers.
Min(a, b) == IF a <= b THEN a ELSE b
Max(a, b) == IF a >= b THEN a ELSE b

\* truncateMarkdown, on a text given by its length.
truncateMarkdown(length) ==
  IF length <= limit THEN length ELSE limit + TruncatedMark

\* The values the input schema lets through for maxFetch: absent, or an
\* integer in 1..100.
MaxFetchValues ==
  {NoMaxFetch} \cup {[given |-> TRUE, value |-> v] : v \in {1, 2, 100}}

\* Mutant of FetchLimit: the default is the README's 5.
FetchLimit_Default5(mf) == Min(Max(IF mf.given THEN mf.value ELSE 5, 1), 100)

\* Math.min(Math.max(maxFetch ?? 10, 1), 100)
FetchLimit(mf) == Min(Max(IF mf.given THEN mf.value ELSE 10, 1), 100)

\* Mutant of SliceEnd: every result is rendered.
SliceEnd_All(n, end) == n

\* enriched.slice(0, fetchLimit).length
SliceEnd(n, end) == Min(n, end)

\* The markdown of the page of result i: every second page is longer than
\* the truncation limit.
PageLength(i) == IF i % 2 = 0 THEN limit + 1 ELSE 1

\* The for loop over enriched.slice(0, fetchLimit) moves to item i: its
\* renderPageToMarkdown is awaited, or, past the slice, the call returns.
RenderLoopTo(i, items) ==
  /\ fetchIdx' = i
  /\ fPc' = IF i <= SliceEnd(Len(items), fetchLimit) THEN "rendering" ELSE "returned"

\* The search_fetch handler is called: fetchLimit is computed and
\* collectRenderedResults awaits searchAllEngines.
SearchFetch(mf) ==
  /\ fPc = "idle"
  /\ maxFetch' = mf
  /\ fetchLimit' = FetchLimit(mf)
  /\ fPc' = "searching"
  /\ UNCHANGED <<enriched, fetchErrors, fetchIdx, rendered, fRest>>

\* searchAllEngines resolved with n results (result i has url i): none
\* returns at once; else every result gets markdown '' and the loop starts.
SearchDone(n) ==
  /\ fPc = "searching"
  /\ LET items == [i \in 1..n |-> [url |-> i, markdown |-> 0]]
     IN  /\ enriched' = items
         /\ IF n = 0
            THEN fPc' = "returned" /\ fetchIdx' = 0
            ELSE RenderLoopTo(1, items)
  /\ UNCHANGED <<maxFetch, fetchLimit, fetchErrors, rendered, fRest>>

\* renderPageToMarkdown(item.url) resolved.
RenderOk ==
  /\ fPc = "rendering"
  /\ enriched' = [enriched EXCEPT
                    ![fetchIdx].markdown = truncateMarkdown(PageLength(fetchIdx))]
  /\ rendered' = Append(rendered, [url |-> enriched[fetchIdx].url, ok |-> TRUE])
  /\ RenderLoopTo(fetchIdx + 1, enriched)
  /\ UNCHANGED <<maxFetch, fetchLimit, fetchErrors, fRest>>

\* renderPageToMarkdown(item.url) rejected: `${item.url}: ${message}`.
RenderFail ==
  /\ fPc = "rendering"
  /\ fetchErrors' = Append(fetchErrors, <<enriched[fetchIdx].url, ": ", "message">>)
  /\ rendered' = Append(rendered, [url |-> enriched[fetchIdx].url, ok |-> FALSE])
  /\ RenderLoopTo(fetchIdx + 1, enriched)
  /\ UNCHANGED <<maxFetch, fetchLimit, enriched, fRest>>

\* The handler has built its response from enriched and fetchErrors.
FetchReturn ==
  /\ fPc = "returned"
  /\ fPc' = "idle"
  /\ maxFetch' = NoMaxFetch
  /\ fetchLimit' = 0
  /\ enriched' = <<>>
  /\ fetchErrors' = <<>>
  /\ fetchIdx' = 0
  /\ rendered' = <<>>
  /\ UNCHANGED fRest

NextFetch ==
  \/ \E mf \in MaxFetchValues : SearchFetch(mf)
  \/ \E n \in 0..MaxFound : SearchDone(n)
  \/ RenderOk
  \/ RenderFail
  \/ FetchReturn

SpecFetch == Init /\ [][NextFetch]_vars

\* ------------------------------------------------------ mergeExtractions

\* n times the character c.
Repeat(c, n) == [i \in 1..n |-> c]

\* The characters /[^a-z0-9]/ keeps.
Alphanumeric == {"a", "b", "d", "f", "h", "p", "q", "0", "1"}

\* Mutant of normalizeForComparison: no slice(0, 100).
normalizeForComparison_Whole(text) ==
  SelectSeq(ToLowerCase(text), LAMBDA c : c \in Alphanumeric)

\* normalizeForComparison: toLowerCase, replace(/[^a-z0-9]/g, ''),
\* slice(0, 100)
normalizeForComparison(text) ==
  LET kept == SelectSeq(ToLowerCase(text), LAMBDA c : c \in Alphanumeric)
  IN  SubSeq(kept, 1, IF Len(kept) < 100 THEN Len(kept) ELSE 100)

\* The paragraphs of the secondary text that deduplicateContent keeps.
uniqueOcr(primary, secondary) ==
  LET seen == {normalizeForComparison(primary.paragraphs[i]) :
                 i \in 1..Len(primary.paragraphs)}
  IN  SelectSeq(secondary.paragraphs,
                LAMBDA para : /\ Len(normalizeForComparison(para)) > 20
                              /\ normalizeForComparison(para) \notin seen)

\* deduplicateContent(textContent, ocrContent), body naming the first
\* argument.
deduplicateContent(body, primary, secondary) ==
  MergedText(body, uniqueOcr(primary, secondary))

\* Mutant of MuchMoreWords: 1.5 times the words are enough.
MuchMoreWords_OrEqual(ocrWords, textWords) == 2 * ocrWords >= 3 * textWords

\* ocrWords > textWords * 1.5
MuchMoreWords(ocrWords, textWords) == 2 * ocrWords > 3 * textWords

\* Mutant of MuchLonger: any longer recognized text becomes the body.
MuchLonger_Longer(ocrLength, textLength) == ocrLength > textLength

\* ocrLength > textLength * 2
MuchLonger(ocrLength, textLength) == ocrLength > textLength * 2

\* mergeExtractions(textContent, ocrContent)
mergeExtractions(text, ocr) ==
  IF text.length > 500
  THEN IF MuchMoreWords(ocr.words, text.words) /\ ocr.length > 200
       THEN deduplicateContent("text", text, ocr)
       ELSE MergedText("text", <<>>)
  ELSE IF text.length > 0 /\ ocr.length > 0
  THEN IF MuchLonger(ocr.length, text.length)
       THEN deduplicateContent("ocr", ocr, text)
       ELSE deduplicateContent("text", text, ocr)
  ELSE IF ocr.length > 0 THEN MergedText("ocr", <<>>)
  ELSE IF text.length > 0 THEN MergedText("text", <<>>)
  ELSE MergedText("none", <<>>)

\* Paragraphs of the embedded text: 21 letters, and 100 letters and a digit.
TextParagraphs == << <<"A">> \o Repeat("b", 20), Repeat("d", 100) \o <<"0">> >>

\* Paragraph lists of the recognized text: the embedded text's paragraphs
\* again, in other case, punctuation and tail; those and the page-break
\* marker's 20 letters or fewer; those and a paragraph of 21 new letters.
OcrParagraphLists ==
  LET again == << <<"a">> \o Repeat("B", 20) \o <<"!">>, Repeat("d", 100) \o <<"1">> >>
  IN  { again,
        again \o <<Repeat("p", 20)>>,
        again \o <<Repeat("p", 21)>>,
        <<Repeat("q", 21) \o <<" ">> \o Repeat("q", 5)>> }

\* The embedded texts of the model: 50 words, of a length at and around
\* the threshold or well below it, and the empty text.
TextContents ==
  {EmptyText} \cup {Text(n, 50, TextParagraphs) : n \in {150, 500, 501, 600}}

\* The recognized texts of the model: 1.2, 1.5, a little over 1.5 and 2
\* times 50 words, of a length at and around the threshold, and the empty
\* text.
OcrContents ==
  {EmptyText} \cup
  {Text(n, w, ps) : n \in {200, 201, 300, 1300}, w \in {60, 75, 76, 100},
                    ps \in OcrParagraphLists}

\* mergeExtractions(textContent, ocrContent) is called and returns.
MergeExtractions ==
  /\ mPc = "called"
  /\ mergedContent' = mergeExtractions(textContent, ocrContent)
  /\ mPc' = "returned"
  /\ UNCHANGED <<textContent, ocrContent, mRest>>

\* A call of mergeExtractions with an embedded and a recognized text.
InitMerge ==
  /\ pools = [id \in PoolIds |-> NewPool]
  /\ nPools = 0
  /\ globalPool = 0
  /\ status = [h \in Handles |-> "none"]
  /\ nextHandle = 0
  /\ now = 0
  /\ pc = [p \in Procs |-> "idle"]
  /\ poolRef = [p \in Procs |-> 0]
  /\ browser = [p \in Procs |-> 0]
  /\ relSince = [p \in Procs |-> {}]
  /\ closer = [pc |-> "idle", pool |-> 0, awaited |-> {}]
  /\ RenderIdle
  /\ AggIdle
  /\ UrlIdle
  /\ FetchIdle
  /\ ExtractIdle
  /\ OcrIdle
  /\ mPc = "called"
  /\ textContent \in TextContents
  /\ ocrContent \in OcrContents
  /\ mergedContent = MergedText("none", <<>>)

NextMerge == MergeExtractions

SpecMerge == InitMerge /\ [][NextMerge]_vars

\* ---------------------------------------------------- deduplicateContent

\* Paragraphs given to deduplicateContent: 21 letters; the same in other
\* case with punctuation; 20 letters and punctuation; 100 letters and a
\* digit; the same 100 letters and another digit.
ParagraphSamples ==
  { <<"A">> \o Repeat("b", 20),
    <<"a">> \o Repeat("B", 20) \o <<"!">>,
    Repeat("p", 20) \o <<"-">>,
    Repeat("d", 100) \o <<"0">>,
    Repeat("d", 100) \o <<"1">> }

\* The lists of at most MaxParagraphs paragraphs.
ParagraphLists == UNION {[1..k -> ParagraphSamples] : k \in 0..MaxParagraphs}

RECURSIVE JoinedLength(_)
\* The length of paragraphs.join('\n\n').
JoinedLength(ps) ==
  IF ps = <<>> THEN 0
  ELSE Len(Head(ps)) + (IF Len(ps) > 1 THEN 2 ELSE 0) + JoinedLength(Tail(ps))

\* The text made of the paragraphs ps, each of them one word.
TextOf(ps) == Text(JoinedLength(ps), IF ps = <<>> THEN 1 ELSE Len(ps), ps)

\* deduplicateContent(textContent, ocrContent) is called and returns.
DeduplicateContent ==
  /\ mPc = "dedup"
  /\ mergedContent' = deduplicateContent("text", textContent, ocrContent)
  /\ mPc' = "deduped"
  /\ UNCHANGED <<textContent, ocrContent, mRest>>

\* A call of deduplicateContent with a primary and a secondary text.
InitDedup ==
  /\ pools = [id \in PoolIds |-> NewPool]
  /\ nPools = 0
  /\ globalPool = 0
  /\ status = [h \in Handles |-> "none"]
  /\ nextHandle = 0
  /\ now = 0
  /\ pc = [p \in Procs |-> "idle"]
  /\ poolRef = [p \in Procs |-> 0]
  /\ browser = [p \in Procs |-> 0]
  /\ relSince = [p \in Procs |-> {}]
  /\ closer = [pc |-> "idle", pool |-> 0, awaited |-> {}]
  /\ RenderIdle
  /\ AggIdle
  /\ UrlIdle
  /\ FetchIdle
  /\ ExtractIdle
  /\ OcrIdle
  /\ mPc = "dedup"
  /\ textContent \in {TextOf(ps) : ps \in ParagraphLists}
  /\ ocrContent \in {TextOf(ps) : ps \in ParagraphLists}
  /\ mergedContent = MergedText("none", <<>>)

NextDedup == DeduplicateContent

SpecDedup == InitDedup /\ [][NextDedup]_vars

\* ----------------------------------------------------- parsePdfFromBuffer

\* The embedded texts pdf-parse can yield: those of the merge model, and
\* texts of a length at and around the hasEmbeddedText threshold.
EmbeddedTexts ==
  TextContents \cup {Text(n, 10, TextParagraphs) : n \in {50, 100, 101}}

\* formatPdfToMarkdown: const extractionMethod
ExtractionMethod(has, ocr) ==
  IF has THEN (IF ocr.length > 0 THEN "Text + OCR" ELSE "Text only")
  ELSE "OCR only"

\* parsePdfFromBuffer(buffer) is called: extractPdfContent awaits
\* extractEmbeddedText.
ParsePdf ==
  /\ xPc = "idle"
  /\ xPc' = "parsing"
  /\ UNCHANGED <<textStep, ocrStep, hasEmbeddedText, extractionMethod, mvars, xRest>>

\* extractEmbeddedText resolved with the trimmed text: hasEmbeddedText is
\* set and the OCR step begins.
EmbeddedTextOk(text) ==
  /\ xPc = "parsing"
  /\ textStep' = "ok"
  /\ textContent' = text
  /\ hasEmbeddedText' = (text.length > 100)
  /\ xPc' = "ocr"
  /\ UNCHANGED <<ocrStep, extractionMethod, mPc, ocrContent, mergedContent, xRest>>

\* extractEmbeddedText rejected (loadPdfParse, getText, getInfo or destroy
\* threw).  The await is outside any try of extractPdfContent: the
\* rejection reaches parsePdfFromBuffer, which throws 'PDF parsing failed'.
EmbeddedTextFail ==
  /\ xPc = "parsing"
  /\ textStep' = "failed"
  /\ xPc' = "failed"
  /\ UNCHANGED <<ocrStep, hasEmbeddedText, extractionMethod, mvars, xRest>>

\* The rest of extractPdfContent and formatPdfToMarkdown, once the OCR
\* step left ocr in ocrContent.
MergeAndFormat(ocr) ==
  /\ ocrContent' = ocr
  /\ mergedContent' = mergeExtractions(textContent, ocr)
  /\ extractionMethod' = ExtractionMethod(hasEmbeddedText, ocr)
  /\ xPc' = "returned"
  /\ UNCHANGED <<textStep, hasEmbeddedText, mPc, textContent, xRest>>

\* Every page was rasterized and recognized: ocrContent is the page texts
\* joined by the page-break marker.
OcrOk(ocr) ==
  /\ xPc = "ocr"
  /\ ocrStep' = "ok"
  /\ MergeAndFormat(ocr)

\* extractPdfPages or ocrImage threw: the catch block logs the error and
\* ocrContent stays ''.
OcrFail ==
  /\ xPc = "ocr"
  /\ ocrStep' = "failed"
  /\ MergeAndFormat(EmptyText)

\* The caller takes the markdown or the error.
ParsePdfReturn ==
  /\ xPc \in {"returned", "failed"}
  /\ xPc' = "idle"
  /\ textStep' = "none"
  /\ ocrStep' = "none"
  /\ hasEmbeddedText' = FALSE
  /\ extractionMethod' = ""
  /\ textContent' = EmptyText
  /\ ocrContent' = EmptyText
  /\ mergedContent' = MergedText("none", <<>>)
  /\ UNCHANGED <<mPc, xRest>>

NextExtract ==
  \/ ParsePdf
  \/ \E text \in EmbeddedTexts : EmbeddedTextOk(text)
  \/ EmbeddedTextFail
  \/ \E ocr \in OcrContents : OcrOk(ocr)
  \/ OcrFail
  \/ ParsePdfReturn

SpecExtract == Init /\ [][NextExtract]_vars

\* ------------------------------------------- getOcrWorker and cleanupOcr

\* getOcrWorker: if (!tesseractWorker)
WorkerMissing(w) == w = 0

\* ocrImage(imageBuffer) is called: getOcrWorker() returns the worker there
\* is, and worker.recognize is awaited; without one it awaits
\* Tesseract.createWorker.
OcrImage(p) ==
  /\ oPc[p] = "idle"
  /\ IF WorkerMissing(tesseractWorker)
     THEN /\ oPc' = [oPc EXCEPT ![p] = "creating"]
          /\ UNCHANGED oWorker
     ELSE /\ oPc' = [oPc EXCEPT ![p] = "recognizing"]
          /\ oWorker' = [oWorker EXCEPT ![p] = tesseractWorker]
  /\ UNCHANGED <<tesseractWorker, workers, nextWorker, cleaner, oRest>>

\* Tesseract.createWorker resolved: the new worker is assigned to
\* tesseractWorker, whatever that holds by now, and returned.
CreateWorkerOk(p) ==
  /\ oPc[p] = "creating"
  /\ nextWorker < MaxWorkers
  /\ nextWorker' = nextWorker + 1
  /\ workers' = [workers EXCEPT ![nextWorker + 1] = "running"]
  /\ tesseractWorker' = nextWorker + 1
  /\ oWorker' = [oWorker EXCEPT ![p] = nextWorker + 1]
  /\ oPc' = [oPc EXCEPT ![p] = "recognizing"]
  /\ UNCHANGED <<cleaner, oRest>>

\* Tesseract.createWorker rejected: ocrImage rejects.
CreateWorkerFail(p) ==
  /\ oPc[p] = "creating"
  /\ oPc' = [oPc EXCEPT ![p] = "idle"]
  /\ UNCHANGED <<tesseractWorker, workers, nextWorker, oWorker, cleaner, oRest>>

\* worker.recognize settled: ocrImage returns the text or rejects.
RecognizeDone(p) ==
  /\ oPc[p] = "recognizing"
  /\ oPc' = [oPc EXCEPT ![p] = "idle"]
  /\ oWorker' = [oWorker EXCEPT ![p] = 0]
  /\ UNCHANGED <<tesseractWorker, workers, nextWorker, cleaner, oRest>>

\* cleanupOcr() up to its await: terminate() is called on the worker there
\* is; without one the call does nothing.
CleanupOcr ==
  /\ cleaner.pc = "idle"
  /\ IF tesseractWorker # 0
     THEN /\ workers' = [workers EXCEPT ![tesseractWorker] = "terminated"]
          /\ cleaner' = [pc |-> "terminating", worker |-> tesseractWorker]
     ELSE UNCHANGED <<workers, cleaner>>
  /\ UNCHANGED <<tesseractWorker, nextWorker, oPc, oWorker, oRest>>

\* terminate() resolved: tesseractWorker = null.
CleanupOcrDone ==
  /\ cleaner.pc = "terminating"
  /\ tesseractWorker' = 0
  /\ cleaner' = [pc |-> "idle", worker |-> 0]
  /\ UNCHANGED <<workers, nextWorker, oPc, oWorker, oRest>>

\* terminate() rejected: cleanupOcr rejects and tesseractWorker is left as
\* it is.
CleanupOcrFail ==
  /\ cleaner.pc = "terminating"
  /\ cleaner' = [pc |-> "idle", worker |-> 0]
  /\ UNCHANGED <<tesseractWorker, workers, nextWorker, oPc, oWorker, oRest>>

\* The process-wide pool and the recognition worker, their users and their
\* teardown (the shutdown handler's closeBrowserPool and cleanupOcr).
NextTeardown ==
  \/ \E p \in Procs : OtherAcquire(p)
  \/ \E p \in Procs : LaunchOk(p)
  \/ \E p \in Procs : LaunchFail(p)
  \/ \E p \in Procs : Poll(p)
  \/ \E p \in Procs : Release(p)
  \/ CloseBrowserPool
  \/ CloseBrowserPoolDone
  \/ \E p \in Procs : OcrImage(p)
  \/ \E p \in Procs : CreateWorkerOk(p)
  \/ \E p \in Procs : CreateWorkerFail(p)
  \/ \E p \in Procs : RecognizeDone(p)
  \/ CleanupOcr
  \/ CleanupOcrDone
  \/ CleanupOcrFail

SpecTeardown == Init /\ [][NextTeardown]_vars

\* ------------------------------------------------------------- properties

\* Every browser of the list is in use.
AllInUse(pl) == \A i \in 1..Len(pl) : pl[i].inUse

\* C1: the number of handles held in a pool never exceeds maxSize, under
\* any interleaving of acquire, release, sweeps and closeAll.
C1_PoolSizeBounded == \A id \in PoolIds : Len(pools[id].pool) <= maxSize

\* C2: a pooled handle is never held by two callers at once: from the
\* moment acquire() returned it to a caller until that caller releases it,
\* no other caller holds it.
C2_HandleHeldByOneCaller ==
  \A p, q \in Procs : (p # q /\ browser[p] # 0) => browser[p] # browser[q]

\* C2's case: a caller waits, a handle was released, and another caller
\* took that handle before the waiter polled.
C2_Witness ==
  \E p, q \in Procs : /\ pc[p] = "holding" /\ pc[q] = "waiting"
                      /\ browser[p] \in relSince[q]

\* C3: an acquire() called when the pool holds maxSize handles, all in use,
\* starts waiting and launches nothing; a waiting acquire() returns only a
\* pooled handle that was released while it waited, and creates none.
C3_WaiterGetsReleasedHandle ==
  [][\A p \in Procs :
       LET pl == pools[poolRef[p]].pool
       IN  /\ (pc[p] = "idle" /\ pc'[p] # "idle" /\ Len(pl) = maxSize /\ AllInUse(pl))
                 => (pc'[p] = "waiting" /\ nextHandle' = nextHandle)
           /\ (pc[p] = "waiting" /\ pc'[p] # "waiting")
                 => /\ pc'[p] = "holding"
                    /\ browser'[p] \in relSince[p]
                    /\ browser'[p] \in HandlesOf(pl)
                    /\ nextHandle' = nextHandle
                    /\ Len(pools'[poolRef[p]].pool) = Len(pl)]_vars

\* C3's case: a caller that had to wait holds a handle released meanwhile.
C3_Witness ==
  \E p \in Procs : pc[p] = "holding" /\ browser[p] \in relSince[p]

\* C8: a sweep removes and closes exactly the entries that are not in use
\* and idle for more than idleTimeout; every other entry stays as it is,
\* and its browser is not closed.
C8_SweepEvictsExactlyIdle ==
  [][Sweep(1) =>
       LET old  == pools[1].pool
           idle == {i \in 1..Len(old) :
                      ~old[i].inUse /\ now - old[i].lastUsed > idleTimeout}
       IN  /\ pools'[1].pool = SelectSeq(old, LAMBDA pb :
                                  pb.inUse \/ now - pb.lastUsed <= idleTimeout)
           /\ \A i \in 1..Len(old) :
                 IF i \in idle
                 THEN status'[old[i].browser] = "closed"
                 ELSE status'[old[i].browser] = status[old[i].browser]]_vars

\* C8's case: a sweep has evicted an idle browser (the timer is still
\* armed, so no closeAll closed it) while a browser in use, stamped longer
\* ago than idleTimeout, stayed in the pool.
C8_Witness ==
  /\ pools[1].cleanupInterval
  /\ \E h \in Handles : status[h] = "closed" /\ h \notin HandlesOf(pools[1].pool)
  /\ \E i \in 1..Len(pools[1].pool) :
        /\ pools[1].pool[i].inUse
        /\ now - pools[1].pool[i].lastUsed > idleTimeout
        /\ status[pools[1].pool[i].browser] = "open"

\* C9: when closeAll() completes, the eviction timer is stopped, the pool
\* is empty, and close() was called on every handle that was in the pool,
\* also when acquire() calls are in progress meanwhile.
C9_CloseAllClosesEveryHandle ==
  [][CloseAllDone =>
       /\ ~pools'[1].cleanupInterval
       /\ pools'[1].pool = <<>>
       /\ \A h \in HandlesOf(pools[1].pool) : status'[h] = "closed"]_vars

\* C10: a handle is in a pool or closed, never both.
C10_InPoolOrClosed ==
  \A id \in PoolIds : \A h \in HandlesOf(pools[id].pool) : status[h] = "open"

\* C11: release(h) for a handle that is not in the pool does not fail and
\* leaves the pool unchanged (no entry added, no flag or timestamp
\* changed); for a known handle only that handle's entry changes: inUse
\* becomes false and the timestamp is stamped.
C11_ReleaseTouchesOnlyItsEntry ==
  [][\A p \in Procs : \A h \in Handles :
       ((Release(p) /\ h = browser[p]) \/ ReleaseStray(p, h))
         => LET old == pools[poolRef[p]].pool
                new == pools'[poolRef[p]].pool
            IN  /\ Len(new) = Len(old)
                /\ \A i \in 1..Len(old) :
                      IF old[i].browser = h
                      THEN new[i] = [browser |-> h, inUse |-> FALSE, lastUsed |-> now]
                      ELSE new[i] = old[i]
                /\ h \notin HandlesOf(old) => new = old]_vars

\* C11's case: a caller holds a handle that closeAll dropped from the pool,
\* and the pool holds another caller's handle since: the release to come
\* is one of an unknown handle on a pool with an entry it could disturb.
C11_Witness ==
  \E p \in Procs :
    /\ pc[p] = "holding"
    /\ browser[p] \notin HandlesOf(pools[poolRef[p]].pool)
    /\ \E i \in 1..Len(pools[poolRef[p]].pool) :
          /\ pools[poolRef[p]].pool[i].inUse
          /\ pools[poolRef[p]].pool[i].lastUsed < now

\* The call's URL parses and its path ends in .pdf, in any letter case.
PathEndsInPdf(p) ==
  LET path == url[p].pathname
      n    == Len(path)
  IN  /\ url[p].valid
      /\ n >= 4
      /\ ToLowerCase(SubSeq(path, n - 3, n)) = <<".", "p", "d", "f">>

\* C12: a URL classified as a document (its path ends in .pdf, or the
\* HEAD probe reported a PDF content type) is passed to document
\* extraction exactly once, and that output or failure is what the call
\* returns: no pool handle is acquired and the retry loop is not entered.
C12_DocumentBypassesPoolAndRetry ==
  \A p \in Renderers :
    (PathEndsInPdf(p) \/ probe[p] = "pdf")
      => /\ pc[p] \in {"pdf", "done", "failed"}
         /\ docCalls[p] = 1
         /\ poolRef[p] = 0 /\ browser[p] = 0 /\ gave[p] = 0
         /\ attempt[p] = 0 /\ delays[p] = <<>> /\ lastError[p] = NoError
         /\ pc[p] = "done" => outcome[p].kind = "pdf"
         /\ pc[p] = "failed" => outcome[p].kind = "pdfError"

\* C12's case: a call for a URL whose path ends in .PDF has failed in
\* document extraction, while another caller holds a browser of the pool.
C12_Witness ==
  \E p \in Renderers :
    /\ PathEndsInPdf(p) /\ pc[p] = "failed" /\ docCalls[p] = 1
    /\ \E q \in Others : pc[q] = "holding"

\* The results of a list, each with the name of the engine it came from.
Tagged(results, name) ==
  [i \in 1..Len(results) |-> [result |-> results[i], source |-> name]]

\* Every result the engines listed in order returned, in that order.
RECURSIVE FeedIn(_)
FeedIn(order) ==
  IF order = <<>> THEN <<>>
  ELSE Tagged(returned[Head(order)].results, engines[Head(order)]) \o FeedIn(Tail(order))

\* Every result merged so far, in merge order.
Feed == FeedIn([e \in 1..Len(returned) |-> e])

\* The results merged so far whose URL has the dedup key.
FeedOfKey(key) ==
  SelectSeq(Feed, LAMBDA it : sanitizeUrl(it.result.url).ok
                              /\ sanitizeUrl(it.result.url).key = key)

\* The elements of a sequence.
Range(q) == {q[i] : i \in 1..Len(q)}

\* C13: searchAllEngines does not fail when an adapter fails: every
\* configured adapter is invoked exactly once per call whatever earlier
\* adapters did, each failing adapter adds exactly one entry
\* '<name>: <message>' to engineErrors, and the results of the successful
\* adapters are returned.
C13_AdapterFailuresAreIsolated ==
  /\ \A e \in 1..NumEngines :
        invoked[e] = IF aggPc # "idle" /\ e <= engineIdx THEN 1 ELSE 0
  /\ aggPc = "returned" => Len(returned) = NumEngines
  /\ LET failing == SelectSeq([e \in 1..Len(returned) |-> e],
                              LAMBDA e : ~returned[e].ok)
     IN  engineErrors =
           [k \in 1..Len(failing) |->
              <<EngineNames[failing[k]], ": ", returned[failing[k]].error>>]
  /\ \A k \in 1..Len(Feed) :
        LET sanitized == sanitizeUrl(Feed[k].result.url)
        IN  sanitized.ok =>
              \E i \in 1..Len(aggregated) :
                 /\ aggregated[i].key = sanitized.key
                 /\ Feed[k].source \in Range(aggregated[i].sources)

\* C13's case: the first adapter failed, the second was still invoked and
\* its results are returned beside the one error entry.
C13_Witness ==
  /\ aggPc = "returned"
  /\ ~returned[1].ok /\ returned[2].ok
  /\ Len(engineErrors) = 1 /\ aggregated # <<>>

\* Spellings of one URL, https://h/a: equal after scheme, fragment and
\* trailing-slash normalization, host and path compared without case.
SameUrlSpellings ==
  { <<"https:", "/", "/", "h", "/", "a">>,
    <<"/", "/", "H", "/", "A", "/", "#", "f">>,
    <<"https:", "/", "/", "h", "/", "a", "/">> }

\* C14: all results whose URLs are canonically equal are merged into
\* exactly one AggregatedResult, whose sources list names each adapter
\* that returned that URL exactly once; every AggregatedResult has a
\* non-empty, duplicate-free sources list.
C14_OneRecordPerCanonicalUrl ==
  /\ \A i, j \in 1..Len(aggregated) :
        i # j => aggregated[i].key # aggregated[j].key
  /\ \A i \in 1..Len(aggregated) :
        LET sources == aggregated[i].sources
        IN  /\ sources # <<>>
            /\ \A a, b \in 1..Len(sources) : a # b => sources[a] # sources[b]
            /\ Range(sources) = {it.source : it \in Range(FeedOfKey(aggregated[i].key))}
  /\ \A k \in 1..Len(Feed) :
        sanitizeUrl(Feed[k].result.url).ok
          => \E i \in 1..Len(aggregated) :
                aggregated[i].key = sanitizeUrl(Feed[k].result.url).key
  /\ Cardinality({i \in 1..Len(aggregated) :
                    \E it \in Range(FeedOfKey(aggregated[i].key)) :
                       it.result.url \in SameUrlSpellings}) <= 1

\* C14's case: two adapters returned URLs that differ in scheme notation,
\* letter case, trailing slash and fragment, and one record names both.
C14_Witness ==
  /\ aggPc = "returned"
  /\ \E i \in 1..Len(aggregated) :
        /\ Len(aggregated[i].sources) = 2
        /\ \E a, b \in Range(FeedOfKey(aggregated[i].key)) :
              a.source # b.source /\ a.result.url # b.result.url

\* The first non-empty string of a sequence of strings, "" when none is.
RECURSIVE FirstNonEmpty(_)
FirstNonEmpty(q) ==
  IF q = <<>> THEN ""
  ELSE IF Head(q) # "" THEN Head(q) ELSE FirstNonEmpty(Tail(q))

\* C15: title and snippet are backfilled per field, first non-empty value
\* wins: a record's title is the first non-empty title among the results
\* merged into it, in merge order, and its snippet likewise (A with title
\* "" and snippet "x", then B with title "T" and snippet "y": "T" and "x").
C15_FirstNonEmptyWinsPerField ==
  \A i \in 1..Len(aggregated) :
    LET its == FeedOfKey(aggregated[i].key)
    IN  /\ aggregated[i].title = FirstNonEmpty([k \in 1..Len(its) |-> its[k].result.title])
        /\ aggregated[i].snippet =
             FirstNonEmpty([k \in 1..Len(its) |-> its[k].result.snippet])

\* C15's case: A (title "", snippet "x") from the first engine, then B
\* (title "T", snippet "y") from the second, for the same URL.
C15_Witness ==
  /\ Len(returned) = 2
  /\ returned[1].ok /\ Len(returned[1].results) = 1
  /\ returned[1].results[1].title = "" /\ returned[1].results[1].snippet = "x"
  /\ returned[2].ok /\ Len(returned[2].results) = 1
  /\ returned[2].results[1].title = "T" /\ returned[2].results[1].snippet = "y"
  /\ Len(aggregated) = 1
  /\ aggregated[1].title = "T" /\ aggregated[1].snippet = "x"

\* The path without one trailing slash, when it is not the root path.
WithoutOneSlash(path) ==
  IF path # <<"/">> /\ path # <<>> /\ path[Len(path)] = "/"
  THEN SubSeq(path, 1, Len(path) - 1) ELSE path

\* The path without its trailing slashes; "/" when nothing else is left.
RECURSIVE WithoutSlashes(_)
WithoutSlashes(path) ==
  IF path = <<>> \/ path = <<"/">> THEN <<"/">>
  ELSE IF path[Len(path)] = "/" THEN WithoutSlashes(SubSeq(path, 1, Len(path) - 1))
  ELSE path

\* The raw URL is well formed: http(s) or scheme-relative, with a host.
WellFormed(scheme, slashes, host) ==
  /\ scheme \in {<<>>, <<"https:">>, <<"HTTP:">>}
  /\ slashes = <<"/", "/">>
  /\ host # <<>>

\* C17 as claimed: canonicalization rejects a URL that is empty, has no
\* scheme or is not http(s); treats a scheme-relative URL as https; removes
\* the fragment; removes a single trailing slash from a non-root path and
\* leaves the root path unchanged; lower-cases only the dedup key, the
\* displayed url keeping its original case.
C17_CanonicalizationAsClaimed ==
  uPc = "returned" =>
    \A pad \in UrlPads, scheme \in UrlSchemes, slashes \in UrlSlashes,
       host \in UrlHosts, path \in UrlPaths, frag \in UrlFrags :
      urlArg = ComposeUrl(pad, scheme, slashes, host, path, frag) =>
        /\ (scheme \o slashes \o host \o path \o frag = <<>>) => ~urlResult.ok
        /\ (scheme = <<>> /\ slashes = <<>>) => ~urlResult.ok
        /\ scheme = <<"ftp:">> => ~urlResult.ok
        /\ (WellFormed(scheme, slashes, host) /\ path # <<>>) =>
             LET shown == (IF scheme = <<>> THEN <<"https:">> ELSE scheme)
                            \o <<"/", "/">> \o host \o WithoutOneSlash(path)
             IN  /\ urlResult.ok
                 /\ urlResult.href = shown
                 /\ urlResult.key = ToLowerCase(shown)

\* C17, amended: canonicalization rejects a URL that is empty, has no
\* scheme or is not http(s); treats a scheme-relative URL as https; removes
\* the fragment; removes every trailing slash from a non-root path (a path
\* of slashes only becomes '/') and leaves the root path unchanged; the
\* dedup key is the displayed url in lower case, and the displayed url
\* keeps the letter case of its path while its scheme and host are in
\* lower case.
C17_Canonicalization ==
  uPc = "returned" =>
    \A pad \in UrlPads, scheme \in UrlSchemes, slashes \in UrlSlashes,
       host \in UrlHosts, path \in UrlPaths, frag \in UrlFrags :
      urlArg = ComposeUrl(pad, scheme, slashes, host, path, frag) =>
        /\ (scheme \o slashes \o host \o path \o frag = <<>>) => ~urlResult.ok
        /\ (scheme = <<>> /\ slashes = <<>>) => ~urlResult.ok
        /\ scheme = <<"ftp:">> => ~urlResult.ok
        /\ WellFormed(scheme, slashes, host) =>
             LET shown == ToLowerCase(IF scheme = <<>> THEN <<"https:">> ELSE scheme)
                            \o <<"/", "/">> \o ToLowerCase(host) \o WithoutSlashes(path)
             IN  /\ urlResult.ok
                 /\ urlResult.href = shown
                 /\ urlResult.key = ToLowerCase(shown)

\* C17's case: a scheme-relative URL with padding, an upper-case host, an
\* upper-case path with two trailing slashes and a fragment was sanitized.
C17_Witness ==
  /\ uPc = "returned"
  /\ urlArg = <<" ", "/", "/", "H", "/", "A", "/", "/", "#", "f", " ">>
  /\ urlResult.ok
  /\ urlResult.href = <<"https:", "/", "/", "h", "/", "A">>

HasSection == mergedContent.extra # <<>>

\* C20 as claimed: when the structured text is longer than 500 characters,
\* the merged text gets the section exactly when the recognized word count
\* is more than 1.5 times the structured word count and the recognized
\* length is more than 200; in every other case the structured text alone
\* is returned.
C20_SectionByThresholdsAlone ==
  (mPc = "returned" /\ textContent.length > 500) =>
    /\ mergedContent.body = "text"
    /\ HasSection <=> (/\ 2 * ocrContent.words > 3 * textContent.words
                       /\ ocrContent.length > 200)

\* C20, amended: when the structured text is longer than 500 characters,
\* the merged text gets the section exactly when the recognized word count
\* is more than 1.5 times the structured word count, the recognized length
\* is more than 200, and at least one recognized paragraph is unique (its
\* normalized form is longer than 20 characters and is not the normalized
\* form of a structured paragraph); the section holds the unique
\* paragraphs; in every other case the structured text alone is returned.
C20_SectionByThresholdsAndUnique ==
  (mPc = "returned" /\ textContent.length > 500) =>
    LET unique == uniqueOcr(textContent, ocrContent)
    IN  /\ mergedContent.body = "text"
        /\ HasSection <=> (/\ 2 * ocrContent.words > 3 * textContent.words
                           /\ ocrContent.length > 200
                           /\ unique # <<>>)
        /\ HasSection => mergedContent.extra = unique

\* C20's case: 600 characters of structured text, recognized text of 300
\* characters with twice the words and one paragraph of its own: the
\* section is there.
C20_Witness ==
  /\ mPc = "returned"
  /\ textContent.length = 600 /\ ocrContent.length = 300
  /\ ocrContent.words = 2 * textContent.words
  /\ Len(mergedContent.extra) = 1

\* The outcomes C21 names for structured text of at most 500 characters,
\* but for which of two non-empty sources is the body.
ShortTextOutcome(ocrIsBody) ==
  LET t == textContent.length
      o == ocrContent.length
  IN  /\ (t > 0 /\ o > 0 /\ ocrIsBody) =>
           mergedContent = MergedText("ocr", uniqueOcr(ocrContent, textContent))
      /\ (t > 0 /\ o > 0 /\ ~ocrIsBody) =>
           mergedContent = MergedText("text", uniqueOcr(textContent, ocrContent))
      /\ (t > 0 /\ o = 0) => mergedContent = MergedText("text", <<>>)
      /\ (t = 0 /\ o > 0) => mergedContent = MergedText("ocr", <<>>)
      /\ (t = 0 /\ o = 0) => mergedContent = MergedText("none", <<>>)

\* C21 as claimed: when the structured text is at most 500 characters and
\* both sources are non-empty, the longer one is the body and the other's
\* unique paragraphs are appended; exactly one non-empty source is
\* returned verbatim; with none the placeholder is returned.
C21_LongerSourceIsBody ==
  (mPc = "returned" /\ textContent.length <= 500) =>
    ShortTextOutcome(ocrContent.length > textContent.length)

\* C21, amended: when the structured text is at most 500 characters and
\* both sources are non-empty, the recognized text is the body only if it
\* is more than twice as long as the structured text, else the structured
\* text is; the other's unique paragraphs are appended; exactly one
\* non-empty source is returned verbatim; with none the placeholder is
\* returned.
C21_TwiceAsLongSourceIsBody ==
  (mPc = "returned" /\ textContent.length <= 500) =>
    ShortTextOutcome(ocrContent.length > 2 * textContent.length)

\* C21's case: 150 characters of structured text and 1300 recognized: the
\* recognized text is the body and structured paragraphs are appended.
C21_Witness ==
  /\ mPc = "returned"
  /\ textContent.length = 150 /\ ocrContent.length = 1300
  /\ mergedContent.body = "ocr"
  /\ mergedContent.extra # <<>>

\* The letters and digits of the model's paragraphs, in lower case.
LettersAndDigits == {"a", "b", "d", "p", "0", "1"}

\* The normalized form of a paragraph: its letters and digits, in lower
\* case, the first 100 of them.
NormalForm(str) ==
  LET lower == [i \in 1..Len(str) |-> LowerChar(str[i])]
      kept  == SelectSeq(lower, LAMBDA c : c \in LettersAndDigits)
  IN  [i \in 1..(IF Len(kept) > 100 THEN 100 ELSE Len(kept)) |-> kept[i]]

\* C22: a paragraph of the secondary source is appended if and only if its
\* normalized form (lower case, letters and digits only, first 100
\* characters) is longer than 20 characters and is not the normalized form
\* of a paragraph of the primary source; the primary text is the front of
\* the output.
C22_AppendsExactlyUniqueParagraphs ==
  mPc = "deduped" =>
    LET primary == {NormalForm(textContent.paragraphs[i]) :
                      i \in 1..Len(textContent.paragraphs)}
        kept(para) == /\ Len(NormalForm(para)) > 20
                      /\ NormalForm(para) \notin primary
    IN  /\ mergedContent.body = "text"
        /\ mergedContent.extra = SelectSeq(ocrContent.paragraphs, kept)

\* C22's case: of two secondary paragraphs, the one that differs from a
\* primary paragraph only after the first 100 letters and digits is
\* dropped and the new one of 21 letters is appended.
C22_Witness ==
  /\ mPc = "deduped"
  /\ textContent.paragraphs = <<Repeat("d", 100) \o <<"0">>>>
  /\ ocrContent.paragraphs = <<Repeat("d", 100) \o <<"1">>, <<"A">> \o Repeat("b", 20)>>
  /\ mergedContent.extra = << <<"A">> \o Repeat("b", 20) >>

\* C23: when structured parsing or image recognition fails, the extraction
\* still returns a result built from the other path (the placeholder when
\* neither produced text): the call fails only if both paths failed.
C23_OnePathFailingNeverFails ==
  /\ xPc = "failed" => (textStep = "failed" /\ ocrStep = "failed")
  /\ (xPc = "returned" /\ ocrStep = "failed") =>
        mergedContent = (IF textContent.length > 0 THEN MergedText("text", <<>>)
                         ELSE MergedText("none", <<>>))

\* C25: the 'Extraction:' line names exactly the methods that contributed
\* to the merged body: 'Text only' for a body of structured text alone,
\* 'OCR only' for a body of recognized text alone, 'Text + OCR' for a body
\* with both; never 'OCR only' for the placeholder.
C25_HeaderNamesContributors ==
  xPc = "returned" =>
    /\ mergedContent = MergedText("text", <<>>) => extractionMethod = "Text only"
    /\ mergedContent = MergedText("ocr", <<>>) => extractionMethod = "OCR only"
    /\ mergedContent.extra # <<>> => extractionMethod = "Text + OCR"
    /\ mergedContent = MergedText("none", <<>>) => extractionMethod # "OCR only"

\* C24: the process-wide pool and the recognition worker do not exist
\* until their first use; closeBrowserPool and cleanupOcr called when
\* there is no instance (before any use, or after a completed teardown)
\* close nothing and leave no instance behind; the first use after that
\* constructs a fresh pool, with its timer started and no browser in it,
\* respectively a new running worker.
C24_LazySingletonsIdempotentTeardown ==
  /\ globalPool = 0 /\ nPools = 0 /\ tesseractWorker = 0 /\ nextWorker = 0
  /\ [][/\ (CloseBrowserPool /\ globalPool = 0) =>
             UNCHANGED <<pools, status, globalPool, nPools, closer>>
        /\ (CleanupOcr /\ tesseractWorker = 0) =>
             UNCHANGED <<workers, tesseractWorker, nextWorker, cleaner>>
        /\ (globalPool' # globalPool /\ globalPool' # 0) =>
             /\ globalPool = 0
             /\ \E p \in Procs : OtherAcquire(p)
             /\ globalPool' = nPools + 1 /\ nPools' = nPools + 1
             /\ pools[globalPool'] = NewPool
             /\ pools'[globalPool'] = [pool |-> <<>>, cleanupInterval |-> TRUE]
        /\ nPools' # nPools => (globalPool = 0 /\ globalPool' = nPools')
        /\ (tesseractWorker' # tesseractWorker /\ tesseractWorker' # 0) =>
             /\ \E p \in Procs : CreateWorkerOk(p)
             /\ workers[tesseractWorker'] = "none"
             /\ workers'[tesseractWorker'] = "running"
        /\ nextWorker' # nextWorker => tesseractWorker' = nextWorker']_vars

\* C24's case: the pool and the worker were used and torn down, teardown
\* was complete, and the next use made a second pool and a second worker.
C24_Witness ==
  /\ globalPool = 2 /\ pools[2].cleanupInterval
  /\ pools[1] = NewPool /\ status[1] = "closed"
  /\ tesseractWorker = 2 /\ workers[2] = "running"
  /\ workers[1] = "terminated"
  /\ closer.pc = "idle" /\ cleaner.pc = "idle"

\* C29: at most one recognition worker runs at a time, also with
\* concurrent ocrImage calls, and it is the one tesseractWorker refers to
\* (none is overwritten and left running, so cleanupOcr reaches every
\* worker that was created).
C29_OneWorkerAndNoneLeftRunning ==
  /\ Cardinality({w \in 1..MaxWorkers : workers[w] = "running"}) <= 1
  /\ \A w \in 1..MaxWorkers : workers[w] = "running" => tesseractWorker = w

\* C26: a caller waiting in acquire() eventually receives a handle when
\* every holder eventually releases, also when the eviction sweep or
\* closeAll removes handles from the pool while it waits.
C26_WaiterEventuallyServed ==
  \A p \in Procs : (pc[p] = "waiting") ~> (pc[p] = "holding")

\* C27: once closeBrowserPool() has completed and until the pool is used
\* again, no browser the pool launched is open, whenever its launch was
\* started.
C27_NoOpenHandleAfterTeardown ==
  (globalPool = 0 /\ closer.pc = "idle") => \A h \in Handles : status[h] # "open"

\* Caller p gives a pooled browser back to the pool in this step.
ReleasesPooled(p) == Pooled(p) /\ gave'[p] = gave[p] + 1

C30_CloseFailureKeepsResult ==
  [][\A p \in Renderers :
       pc[p] \in {"ctxClose", "ephClose"} =>
         /\ pc'[p] \in {"ctxClose", "ephClose", "done"}
         /\ lastError'[p] = lastError[p]
         /\ pc'[p] = "done" => outcome'[p] = [kind |-> "ok", attempt |-> attempt[p] + 1]]_vars

\* The orders in which the engines' result lists can be merged.
MergeOrders ==
  {order \in [1..NumEngines -> 1..NumEngines] :
     \A a, b \in 1..NumEngines : a # b => order[a] # order[b]}

\* The Map after merging the returned result lists in the given order.
RECURSIVE MergedIn(_, _)
MergedIn(accumulator, order) ==
  IF order = <<>> THEN accumulator
  ELSE MergedIn(MergeAll(accumulator, returned[Head(order)].results,
                         engines[Head(order)]),
                Tail(order))

\* C16 as claimed: the set of final result URLs (the url field of the
\* returned records) and, for each of them, the set of sources are the same
\* for every order in which the adapters' result lists are merged.
C16_UrlsIndependentOfOrder ==
  aggPc = "returned" =>
    \A order \in MergeOrders :
       {<<r.url, Range(r.sources)>> : r \in Range(MergedIn(<<>>, order))}
         = {<<r.url, Range(r.sources)>> : r \in Range(aggregated)}

\* C16, amended: the set of dedup keys (the lower-cased canonical URLs)
\* and, for each key, the set of sources are the same for every order in
\* which the adapters' result lists are merged; the url field of a record
\* is the canonical URL as spelled by the first result merged into it, so
\* its letter case, like title and snippet precedence and list order, may
\* depend on that order.
C16_KeysIndependentOfOrder ==
  aggPc = "returned" =>
    \A order \in MergeOrders :
       LET other == MergedIn(<<>>, order)
       IN  /\ {<<r.key, Range(r.sources)>> : r \in Range(other)}
                = {<<r.key, Range(r.sources)>> : r \in Range(aggregated)}
           /\ \A r \in Range(other) : ToLowerCase(r.url) = r.key
           /\ \A r \in Range(aggregated) :
                 r.url = sanitizeUrl(FeedOfKey(r.key)[1].result.url).href

\* C16's case: two adapters returned the same URL in different letter
\* case, and with it another URL that only one of them returned.
C16_Witness ==
  /\ aggPc = "returned"
  /\ Len(aggregated) = 2
  /\ \E i \in 1..Len(aggregated) :
        /\ Len(aggregated[i].sources) = 2
        /\ \E a, b \in Range(FeedOfKey(aggregated[i].key)) :
              /\ a.source # b.source
              /\ sanitizeUrl(a.result.url).href # sanitizeUrl(b.result.url).href

\* The dedup keys of the results of q that have one, each at its first
\* place.
RECURSIVE FirstSeen(_, _)
FirstSeen(q, seen) ==
  IF q = <<>> THEN <<>>
  ELSE LET sanitized == sanitizeUrl(Head(q).result.url)
       IN  IF sanitized.ok /\ sanitized.key \notin seen
           THEN <<sanitized.key>> \o FirstSeen(Tail(q), seen \cup {sanitized.key})
           ELSE FirstSeen(Tail(q), seen)

\* C18: the results are in first-insertion order: a URL first seen earlier
\* (from an earlier adapter, or earlier in one adapter's list) precedes
\* every URL first seen later, and merging a duplicate into a record does
\* not move it.
C18_FirstInsertionOrder ==
  [k \in 1..Len(aggregated) |-> aggregated[k].key] = FirstSeen(Feed, {})

\* C18's case: a record was inserted, a second after it, and then a
\* duplicate of the first was merged.
C18_Witness ==
  /\ Len(aggregated) = 2
  /\ Len(aggregated[1].sources) = 2
  /\ Len(aggregated[2].sources) = 1
  /\ aggregated[2].sources[1] = engines[1]

\* The states in which an attempt of the retry loop is over.
AttemptOver == {"backoff", "done", "failed"}

\* The sum of a sequence of numbers.
RECURSIVE SumSeq(_)
SumSeq(q) == IF q = <<>> THEN 0 ELSE Head(q) + SumSeq(Tail(q))

\* C4: when an attempt ends, on the success path and on every failure
\* path, the browser it obtained has been given back exactly once: a
\* pooled one released (its pool entry, if still there, is free), one of
\* the attempt's own closed.
C4_HandleGivenBackOnce ==
  [][\A p \in Renderers :
       (pc[p] \notin AttemptOver /\ pc'[p] \in AttemptOver /\ browser[p] # 0)
         => /\ gave'[p] = 1
            /\ IF createdBrowser[p]
               THEN status'[browser[p]] = "closed"
               ELSE LET pl == pools'[poolRef[p]].pool
                        i  == FindBrowser(pl, browser[p])
                    IN  i = 0 \/ ~pl[i].inUse]_vars

\* C5: when creating the browser fails in an attempt (the launch inside
\* pool.acquire(), or the attempt's own launch), the attempt counts as
\* failed: the call backs off and retries while attempts remain, and
\* fails only after the last attempt.
C5_LaunchFailureIsRetried ==
  [][\A p \in Renderers :
       (pc[p] \in {"launching", "ephLaunch"} /\ pc'[p] \notin {pc[p], "holding"})
         => IF attempt[p] < 2 THEN pc'[p] = "backoff" ELSE pc'[p] = "failed"]_vars

\* C6: a call makes at most 3 attempts, one after another; it returns the
\* result of the first attempt that succeeds (every earlier attempt failed,
\* none is started after it), and after 3 failed attempts it throws the
\* error of the third; between two attempts the browser of the earlier one
\* has been given back.
C6_AtMostThreeSequentialAttempts ==
  \A p \in Renderers :
    /\ attempt[p] <= 3
    /\ pc[p] \notin {"idle", "probe", "failed"} => attempt[p] < 3
    /\ (pc[p] = "done" /\ ~Document(p))
         => /\ outcome[p] = [kind |-> "ok", attempt |-> attempt[p] + 1]
            /\ lastError[p] = attempt[p]
    /\ (pc[p] = "failed" /\ outcome[p].kind = "error")
         => (attempt[p] = 3 /\ outcome[p].attempt = 3)
    /\ (pc[p] = "backoff" /\ browser[p] # 0) => gave[p] >= 1
    /\ pc[p] \in {"launching", "waiting", "ephLaunch"} => (browser[p] = 0 /\ gave[p] = 0)

\* C6's case: three attempts failed and the call threw the third's error.
C6_Witness ==
  \E p \in Renderers : pc[p] = "failed" /\ outcome[p] = [kind |-> "error", attempt |-> 3]

\* C7: the wait after failed attempt k is 250 * k ms; no wait follows a
\* successful attempt or the failed last attempt; a call that succeeds on
\* attempt 3 has waited 250 + 500 = 750 ms in all.
C7_BackoffIs250TimesAttempt ==
  \A p \in Renderers :
    /\ \A k \in 1..Len(delays[p]) : delays[p][k] = 250 * k
    /\ Len(delays[p]) = IF pc[p] = "backoff" THEN attempt[p] + 1
                        ELSE IF attempt[p] = 3 THEN 2 ELSE attempt[p]
    /\ (pc[p] = "done" /\ outcome[p].attempt = 3) => SumSeq(delays[p]) = 750

\* C7's case: attempts 1 and 2 failed, attempt 3 succeeded.
C7_Witness ==
  \E p \in Renderers : /\ pc[p] = "done" /\ outcome[p].attempt = 3
                        /\ delays[p] = <<250, 500>>

====
